---- MODULE Spec2Model ----
(***************************************************************************)
(* Public-dashboard query construction and template-variable               *)
(* interpolation (pkg/services/publicdashboards/service/query.go).         *)
(*                                                                         *)
(* Strings are sequences of tokens.  A token is a TLA+ string that stands  *)
(* for one character ("$", "{", "a") or for an unbroken run of identifier  *)
(* characters ("up", "prom", "__expr__").  JSON objects are functions from *)
(* field names to values; an absent field is a name outside the DOMAIN.    *)
(***************************************************************************)
EXTENDS Integers, Sequences, FiniteSets, TLC

VARIABLES
    text,        \* interpolateVariables: the text argument
    variables,   \* interpolateVariables: the variables argument
    valueStrs,   \* interpolateVariables: valueStr computed for each non-nil variable
    result,      \* interpolateVariables: the returned string
    phase,       \* "in" before the call, "out" after it
    heap,        \* address -> dashboard document (dashboards.Dashboard.Data)
    unsupported, \* the stored document holds a value json.Marshal rejects
    req,         \* request -> its PublicDashboardQueryDTO and panelId
    pc,          \* request -> its position in GetQueryDataResponse
    dash,        \* request -> the address its local `dashboard` points to
    source,      \* request -> the document applyTemplateVariables encoded
    metricReq,   \* request -> the MetricRequest built (queries are pointers)
    sent,        \* request -> the queries QueryData received
    reads,       \* request -> addresses of documents it has read
    writes,      \* request -> addresses of documents it has written
    original,    \* the stored document as the lookup first returned it
    timeIn,      \* time window resolver: dashboard, reqDTO, panelID, TimeSelectionEnabled
    timeOut,     \* time window resolver: from, to, timezone and the TimeSettings
    ret,         \* request -> what GetQueryDataResponse returned: (res, err)
    calls,       \* request -> the number of calls of QueryData it has made
    vreq,        \* GetVariableQueryResponse: variableName and reqDTO
    vpc,         \* GetVariableQueryResponse: its position
    variable,    \* GetVariableQueryResponse: the variableDefinition found
    exec,        \* GetVariableQueryResponse: the MetricRequests handed to QueryData
    vret         \* GetVariableQueryResponse: what it returned: (options, err)

ivars == <<text, variables, valueStrs, result, phase>>

qvars == <<heap, unsupported, req, pc, dash, source, metricReq, sent, reads, writes,
           original, ret, calls>>

tvars == <<timeIn, timeOut>>

rvars == <<vreq, vpc, variable, exec, vret>>

vars == <<text, variables, valueStrs, result, phase,
          heap, unsupported, req, pc, dash, source, metricReq, sent, reads, writes,
          original, timeIn, timeOut, ret, calls, vreq, vpc, variable, exec, vret>>

(***************************************************************************)
(* Bounds                                                                  *)
(***************************************************************************)
\* Number of pieces an input text of interpolateVariables is built from.
MaxPieces == 3

\* Number of targets (v1) or query entries (v2) of the generated panel.
MaxTargets == 2

(***************************************************************************)
(* Characters                                                              *)
(***************************************************************************)
\* Tokens that are not in [0-9A-Za-z_]: every other token is a word token.
NonWordChars == {"$", "{", "}", ".", ",", " ", "=", "-"}

IsWordChar(c) == c \notin NonWordChars

RECURSIVE Concat(_)
Concat(ss) == IF ss = <<>> THEN <<>> ELSE Head(ss) \o Concat(Tail(ss))

(***************************************************************************)
(* Variable values (interface{} held by map[string]interface{})            *)
(***************************************************************************)
Nil == [t |-> "nil"]
Str(s) == [t |-> "string", v |-> s]
Num(n) == [t |-> "number", v |-> n]
Bool(b) == [t |-> "bool", v |-> b]
List(l) == [t |-> "list", v |-> l]

Digits == <<"0", "1", "2", "3", "4", "5", "6", "7", "8", "9">>

\* fmt.Sprintf("%v", v) of a number 0..9 or a boolean.
Sprintf(v) ==
    CASE v.t = "number" -> <<Digits[v.v + 1]>>
      [] v.t = "bool" -> IF v.v THEN <<"true">> ELSE <<"false">>
      [] v.t = "string" -> v.v
      [] OTHER -> <<>>

RECURSIVE Join(_, _)
Join(strs, sep) ==
    IF strs = <<>> THEN <<>>
    ELSE IF Len(strs) = 1 THEN Head(strs)
    ELSE Head(strs) \o sep \o Join(Tail(strs), sep)

\* The loop of variableValueToString over a []interface{}: the elements that
\* are strings, in order.
RECURSIVE StringElements(_)
StringElements(l) ==
    IF l = <<>> THEN <<>>
    ELSE IF Head(l).t = "string"
         THEN <<Head(l).v>> \o StringElements(Tail(l))
         ELSE StringElements(Tail(l))

variableValueToString(varValue) ==
    CASE varValue.t = "string" -> varValue.v
      [] varValue.t = "list" ->
            LET values == StringElements(varValue.v)
            IN IF Len(values) > 0 THEN Join(values, <<",">>) ELSE <<>>
      [] OTHER -> Sprintf(varValue)

(***************************************************************************)
(* regexp.ReplaceAllString as interpolateVariables uses it: the pattern is *)
(* a literal (regexp.QuoteMeta), optionally followed by \b, and the        *)
(* replacement is a template in which $ is interpreted as in Expand.       *)
(***************************************************************************)
\* Length of the longest prefix of s made of word tokens.
RECURSIVE NameLen(_)
NameLen(s) ==
    IF s = <<>> \/ ~IsWordChar(Head(s)) THEN 0 ELSE 1 + NameLen(Tail(s))

\* regexp's extract: the name after a "$" of a template, braced or not.
extract(str) ==
    LET brace == str # <<>> /\ Head(str) = "{"
        s == IF brace THEN Tail(str) ELSE str
        i == NameLen(s)
        closed == i < Len(s) /\ s[i + 1] = "}"
    IN IF i = 0 \/ (brace /\ ~closed)
       THEN [ok |-> FALSE, name |-> <<>>, rest |-> str]
       ELSE [ok |-> TRUE,
             name |-> SubSeq(s, 1, i),
             rest |-> SubSeq(s, (IF brace THEN i + 2 ELSE i + 1), Len(s))]

\* regexp's expand for a pattern without capture groups: $0 is the match,
\* every other group is empty, $$ is a dollar, a malformed $ is raw text.
RECURSIVE Expand(_, _)
Expand(template, match) ==
    IF template = <<>> THEN <<>>
    ELSE IF Head(template) # "$"
         THEN <<Head(template)>> \o Expand(Tail(template), match)
    ELSE LET after == Tail(template)
         IN IF after # <<>> /\ Head(after) = "$"
            THEN <<"$">> \o Expand(Tail(after), match)
            ELSE LET e == extract(after)
                 IN IF ~e.ok
                    THEN <<"$">> \o Expand(after, match)
                    ELSE (IF e.name = <<"0">> THEN match ELSE <<>>)
                         \o Expand(e.rest, match)

HasPrefixAt(s, i, p) ==
    /\ i + Len(p) - 1 <= Len(s)
    /\ \A k \in 1..Len(p) : s[i + k - 1] = p[k]

IsWordAt(s, k) == k \in 1..Len(s) /\ IsWordChar(s[k])

\* \b between positions k and k+1 of s.
WordBoundary(s, k) == IsWordAt(s, k) # IsWordAt(s, k + 1)

MatchAt(s, i, pat, wordBoundary) ==
    /\ HasPrefixAt(s, i, pat)
    /\ wordBoundary => WordBoundary(s, i + Len(pat) - 1)

RECURSIVE ReplaceFrom(_, _, _, _, _)
ReplaceFrom(s, i, pat, wordBoundary, repl) ==
    IF i > Len(s) THEN <<>>
    ELSE IF MatchAt(s, i, pat, wordBoundary)
         THEN Expand(repl, pat)
              \o ReplaceFrom(s, i + Len(pat), pat, wordBoundary, repl)
         ELSE <<s[i]>> \o ReplaceFrom(s, i + 1, pat, wordBoundary, repl)

ReplaceAllString(s, pat, wordBoundary, repl) ==
    ReplaceFrom(s, 1, pat, wordBoundary, repl)

(***************************************************************************)
(* interpolateVariables                                                    *)
(***************************************************************************)
\* The orders in which a range over the map may visit its keys.
Orders(m) ==
    LET n == Cardinality(DOMAIN m)
    IN {o \in [1..n -> DOMAIN m] : \A i, j \in 1..n : o[i] = o[j] => i = j}

\* One iteration of the loop for one variable.
interpolateOne(res, varName, varValue) ==
    IF varValue.t = "nil" THEN res
    ELSE LET valueStr == variableValueToString(varValue)
             braced == ReplaceAllString(res, <<"$", "{">> \o varName \o <<"}">>,
                                        FALSE, valueStr)
         IN ReplaceAllString(braced, <<"$">> \o varName, TRUE, valueStr)

RECURSIVE interpolateFrom(_, _, _, _)
interpolateFrom(res, m, order, i) ==
    IF i > Len(order) THEN res
    ELSE interpolateFrom(interpolateOne(res, order[i], m[order[i]]), m, order, i + 1)

interpolateVariables(txt, m, order) == interpolateFrom(txt, m, order, 1)

(***************************************************************************)
(* simplejson navigation.  Get(key).Interface() != nil and CheckGet(key)   *)
(* are Has; documents hold no JSON null.                                   *)
(***************************************************************************)
Has(j, key) == key \in DOMAIN j

Set(j, key, val) == [k \in (DOMAIN j) \cup {key} |-> IF k = key THEN val ELSE j[k]]

Del(j, key) == [k \in (DOMAIN j) \ {key} |-> j[k]]

MustBool(j, key) == IF Has(j, key) THEN j[key] ELSE FALSE

MustString(j, key) == IF Has(j, key) THEN j[key] ELSE <<>>

MustArray(j, key) == IF Has(j, key) THEN j[key] ELSE <<>>

MustInt64(j, key) == IF Has(j, key) THEN j[key] ELSE 0

\* A JSON string held where an object may stand (a legacy "datasource": "uid")
\* is the one-field value [str |-> s].
JsonString(s) == [str |-> s]

(***************************************************************************)
(* Document walker: interpolation of the allow-listed fields               *)
(***************************************************************************)
\* A faulty field list: refId is rewritten too.
queryFieldsWithRefId ==
    {"expr", "query", "rawQuery", "select", "from", "where", "group", "alias",
     "legendFormat", "format", "interval", "step", "measurement", "metric",
     "table", "database", "refId"}

queryFields ==
    {"expr", "query", "rawQuery", "select", "from", "where", "group", "alias",
     "legendFormat", "format", "interval", "step", "measurement", "metric",
     "table", "database"}

\* datasource.Set("uid", interpolateVariables(uid)) when datasource.uid is there.
interpolateUid(datasource, m, order) ==
    IF Has(datasource, "uid")
    THEN Set(datasource, "uid", interpolateVariables(datasource.uid, m, order))
    ELSE datasource

interpolateVariablesInTarget(target, m, order) ==
    [k \in DOMAIN target |->
        IF k \in queryFields THEN interpolateVariables(target[k], m, order)
        ELSE IF k = "datasource" THEN interpolateUid(target[k], m, order)
        ELSE target[k]]

RECURSIVE interpolateVariablesInPanel(_, _, _)
interpolateVariablesInPanel(panel, m, order) ==
    [k \in DOMAIN panel |->
        IF k \in {"title", "description"}
        THEN interpolateVariables(panel[k], m, order)
        ELSE IF k = "datasource" THEN interpolateUid(panel[k], m, order)
        ELSE IF k = "targets"
        THEN [i \in 1..Len(panel[k]) |->
                 interpolateVariablesInTarget(panel[k][i], m, order)]
        ELSE IF k = "panels"
        THEN [i \in 1..Len(panel[k]) |->
                 interpolateVariablesInPanel(panel[k][i], m, order)]
        ELSE panel[k]]

\* spec.datasource of a v2 element: uid and name.
interpolateElementDatasource(datasource, m, order) ==
    LET withUid == interpolateUid(datasource, m, order)
    IN IF Has(withUid, "name")
       THEN Set(withUid, "name", interpolateVariables(withUid.name, m, order))
       ELSE withUid

\* spec.data of a v2 element: every entry of spec.data.spec.queries is handed
\* to interpolateVariablesInTarget as it stands.
interpolateElementData(data, m, order) ==
    IF Has(data, "spec") /\ Has(data.spec, "queries")
    THEN Set(data, "spec",
             Set(data.spec, "queries",
                 [i \in 1..Len(data.spec.queries) |->
                     interpolateVariablesInTarget(data.spec.queries[i], m, order)]))
    ELSE data

interpolateVariablesInElementV2(element, m, order) ==
    IF ~Has(element, "spec") THEN element
    ELSE Set(element, "spec",
             [k \in DOMAIN element.spec |->
                 IF k = "datasource"
                 THEN interpolateElementDatasource(element.spec[k], m, order)
                 ELSE IF k = "data"
                 THEN interpolateElementData(element.spec[k], m, order)
                 ELSE element.spec[k]])

interpolateVariablesInDashboard(dashboard, m, order) ==
    [k \in DOMAIN dashboard |->
        IF k = "title" THEN interpolateVariables(dashboard[k], m, order)
        ELSE IF k = "panels"
        THEN [i \in 1..Len(dashboard[k]) |->
                 interpolateVariablesInPanel(dashboard[k][i], m, order)]
        ELSE IF k = "elements"
        THEN [id \in DOMAIN dashboard[k] |->
                 interpolateVariablesInElementV2(dashboard[k][id], m, order)]
        ELSE dashboard[k]]

(***************************************************************************)
(* Metric request builder                                                  *)
(***************************************************************************)
\* expr.DatasourceUID and expr.OldDatasourceUID: the uids for which
\* expr.NodeTypeFromDatasourceUID answers TypeCMDNode.
ExprDatasourceUIDs == { <<"__expr__">>, <<"-", "100">> }

getDataSourceUidFromJson(query) ==
    LET datasource == IF Has(query, "datasource") THEN query.datasource ELSE <<>>
        uid == MustString(datasource, "uid")
    IN IF uid = <<>> THEN MustString(datasource, "str") ELSE uid

getDataSourceUidFromJsonSchemaV2(query) ==
    LET datasource == IF Has(query, "datasource") THEN query.datasource ELSE <<>>
        uid == MustString(datasource, "name")
    IN IF uid = <<>> THEN MustString(datasource, "str") ELSE uid

panelHasAnExpression(panel) ==
    \E i \in 1..Len(MustArray(panel, "targets")) :
        getDataSourceUidFromJson(panel.targets[i]) \in ExprDatasourceUIDs

\* spec.data.spec.queries of a v2 element, empty when any link is missing.
queriesOfElement(element) ==
    IF /\ Has(element, "spec")
       /\ Has(element.spec, "data")
       /\ Has(element.spec.data, "spec")
    THEN MustArray(element.spec.data.spec, "queries")
    ELSE <<>>

panelHasAnExpressionSchemaV2(element) ==
    \E i \in 1..Len(queriesOfElement(element)) :
        LET query == queriesOfElement(element)[i]
        IN /\ Has(query, "spec")
           /\ Has(query.spec, "query")
           /\ getDataSourceUidFromJsonSchemaV2(query.spec.query) \in ExprDatasourceUIDs

\* The `continue` of the v1 loop over targets: the query is skipped.
\* A faulty filter: a hidden target is dropped whatever the panel holds.
skipsEveryHiddenTarget(hasExpression, query) == MustBool(query, "hide")

skipsTarget(hasExpression, query) == ~hasExpression /\ MustBool(query, "hide")

\* A faulty extraction: exemplar stays on the target.
extractTargetKeepingExemplar(panel, query) ==
    IF ~Has(query, "datasource")
    THEN Set(query, "datasource",
             [type |-> <<"public-ds">>, uid |-> getDataSourceUidFromJson(panel)])
    ELSE query

\* A faulty extraction: the synthesized datasource does not take the panel's
\* uid.
extractTargetWithoutPanelUid(panel, query) ==
    LET q == Del(query, "exemplar")
    IN IF ~Has(q, "datasource")
       THEN Set(q, "datasource", [type |-> <<"public-ds">>, uid |-> <<>>])
       ELSE q

\* What the v1 loop does to a target it keeps.
extractTarget(panel, query) ==
    LET q == Del(query, "exemplar")
    IN IF ~Has(q, "datasource")
       THEN Set(q, "datasource",
                [type |-> <<"public-ds">>, uid |-> getDataSourceUidFromJson(panel)])
       ELSE q

\* Indexes i of 1..n with keep[i], in order.
RECURSIVE KeptIndexes(_, _)
KeptIndexes(keep, n) ==
    IF n = 0 THEN <<>>
    ELSE IF keep[n] THEN Append(KeptIndexes(keep, n - 1), n)
    ELSE KeptIndexes(keep, n - 1)

\* A test that takes every row for a collapsed one.
isRow(panel) == MustString(panel, "type") = <<"row">>

isCollapsedRow(panel) ==
    MustString(panel, "type") = <<"row">> /\ MustBool(panel, "collapsed")

\* extractQueriesFromPanels over panels[i..], at position `prefix` of the
\* document: acc.panels is the list as written so far, acc.result the map from
\* panel id to the kept queries, each a pointer [panel, target] into the
\* document.
RECURSIVE extractQueriesFromPanels(_, _, _, _)
extractQueriesFromPanels(panels, i, prefix, acc) ==
    IF i > Len(panels) THEN acc
    ELSE
      LET panel == panels[i]
          at == Append(prefix, i)
      IN IF isCollapsedRow(panel)
         THEN LET nested == MustArray(panel, "panels")
                  inner == extractQueriesFromPanels(
                               nested, 1, at, [panels |-> nested, result |-> acc.result])
              IN extractQueriesFromPanels(panels, i + 1, prefix,
                     [panels |-> [acc.panels EXCEPT ![i] =
                                     IF Has(panel, "panels")
                                     THEN Set(panel, "panels", inner.panels)
                                     ELSE panel],
                      result |-> inner.result])
         ELSE LET hasExpression == panelHasAnExpression(panel)
                  targets == MustArray(panel, "targets")
                  keep == [j \in 1..Len(targets) |->
                              ~skipsTarget(hasExpression, targets[j])]
                  kept == KeptIndexes(keep, Len(targets))
                  panelQueries == [j \in 1..Len(kept) |->
                                      [panel |-> at, target |-> kept[j]]]
                  written == [j \in 1..Len(targets) |->
                                 IF keep[j] THEN extractTarget(panel, targets[j])
                                 ELSE targets[j]]
              IN extractQueriesFromPanels(panels, i + 1, prefix,
                     [panels |-> [acc.panels EXCEPT ![i] =
                                     IF Has(panel, "targets")
                                     THEN Set(panel, "targets", written)
                                     ELSE panel],
                      result |-> Set(acc.result, MustInt64(panel, "id"), panelQueries)])

\* groupQueriesByPanelId: the document as extraction leaves it, and the map.
groupQueriesByPanelId(dashboard) ==
    LET panels == MustArray(dashboard, "panels")
        out == extractQueriesFromPanels(panels, 1, <<>>, [panels |-> panels, result |-> <<>>])
    IN [data |-> IF Has(dashboard, "panels")
                 THEN Set(dashboard, "panels", out.panels)
                 ELSE dashboard,
        result |-> out.result]

\* What the v2 loop does to spec.query of an entry it keeps: the payload
\* spec.query.spec loses exemplar and gains the inherited datasource.
extractQueryV2(dataQueryKind) ==
    LET q == Del(dataQueryKind.spec, "exemplar")
        group == MustString(dataQueryKind, "group")
    IN Set(dataQueryKind, "spec",
           IF ~Has(q, "datasource")
           THEN Set(q, "datasource",
                    [type |-> group,
                     uid |-> getDataSourceUidFromJsonSchemaV2(dataQueryKind)])
           ELSE q)

\* The `continue`s of the v2 loop over spec.data.spec.queries.
skipsQueryV2(hasExpression, query) ==
    \/ ~Has(query, "spec")
    \/ ~hasExpression /\ MustBool(query.spec, "hidden")
    \/ ~Has(query.spec, "query")
    \/ ~Has(query.spec.query, "spec")

\* One element of the v2 loop: the element as written, and its kept queries,
\* each a pointer [element, query] to the payload spec.query.spec.
extractElementV2(key, element) ==
    LET hasExpression == panelHasAnExpressionSchemaV2(element)
        queries == queriesOfElement(element)
        keep == [j \in 1..Len(queries) |-> ~skipsQueryV2(hasExpression, queries[j])]
        kept == KeptIndexes(keep, Len(queries))
        written == [j \in 1..Len(queries) |->
                       IF keep[j]
                       THEN Set(queries[j], "spec",
                                Set(queries[j].spec, "query",
                                    extractQueryV2(queries[j].spec.query)))
                       ELSE queries[j]]
    IN [element |-> IF Len(queries) > 0
                    THEN Set(element, "spec",
                             Set(element.spec, "data",
                                 Set(element.spec.data, "spec",
                                     Set(element.spec.data.spec, "queries", written))))
                    ELSE element,
        id |-> IF Has(element, "spec") THEN MustInt64(element.spec, "id") ELSE 0,
        panelQueries |-> [j \in 1..Len(kept) |-> [element |-> key, query |-> kept[j]]]]

\* groupQueriesByPanelIdV2.  The range over the elements map visits them in any
\* order; elements carry distinct ids, so the map built does not depend on it.
groupQueriesByPanelIdV2(dashboard) ==
    LET elements == dashboard.elements
        out == [key \in DOMAIN elements |-> extractElementV2(key, elements[key])]
        ids == {out[key].id : key \in DOMAIN elements}
    IN [data |-> Set(dashboard, "elements",
                     [key \in DOMAIN elements |-> out[key].element]),
        result |-> [id \in ids |->
                       out[CHOOSE key \in DOMAIN elements : out[key].id = id].panelQueries]]

(***************************************************************************)
(* Pointers to query objects                                               *)
(***************************************************************************)
RECURSIVE PanelAt(_, _)
PanelAt(panels, at) ==
    IF Len(at) = 1 THEN panels[at[1]]
    ELSE PanelAt(panels[at[1]].panels, Tail(at))

\* The query object a pointer of a MetricRequest refers to, in document data.
QueryAt(data, ptr) ==
    IF Has(ptr, "element")
    THEN data.elements[ptr.element].spec.data.spec.queries[ptr.query].spec.query.spec
    ELSE PanelAt(data.panels, ptr.panel).targets[ptr.target]

RECURSIVE WriteTarget(_, _, _, _)
WriteTarget(panels, at, target, query) ==
    IF Len(at) = 1
    THEN [panels EXCEPT ![at[1]] =
             Set(@, "targets", [@.targets EXCEPT ![target] = query])]
    ELSE [panels EXCEPT ![at[1]] =
             Set(@, "panels", WriteTarget(@.panels, Tail(at), target, query))]

\* Document data with the query object at ptr replaced by query.
WriteQuery(data, ptr, query) ==
    IF Has(ptr, "element")
    THEN [data EXCEPT
            !.elements[ptr.element].spec.data.spec.queries[ptr.query].spec.query.spec =
                query]
    ELSE Set(data, "panels", WriteTarget(data.panels, ptr.panel, ptr.target, query))

\* The three Sets of buildMetricRequest on one query.
setRequestFields(query, safeInterval, safeResolution, ttl) ==
    Set(Set(Set(query, "intervalMs", safeInterval),
            "maxDataPoints", safeResolution),
        "queryCachingTTL", ttl)

RECURSIVE setOnQueries(_, _, _, _, _, _)
setOnQueries(data, queries, i, safeInterval, safeResolution, ttl) ==
    IF i > Len(queries) THEN data
    ELSE setOnQueries(
             WriteQuery(data, queries[i],
                        setRequestFields(QueryAt(data, queries[i]),
                                         safeInterval, safeResolution, ttl)),
             queries, i + 1, safeInterval, safeResolution, ttl)

\* Clamps of getSafeIntervalAndMaxDataPoints.
MinSafeInterval == 10
MaxSafeResolution == 500

getSafeIntervalAndMaxDataPoints(reqDTO) ==
    [safeInterval |-> IF reqDTO.intervalMs < MinSafeInterval
                      THEN MinSafeInterval ELSE reqDTO.intervalMs,
     safeResolution |-> IF reqDTO.maxDataPoints > MaxSafeResolution
                        THEN MaxSafeResolution ELSE reqDTO.maxDataPoints]

\* buildMetricRequest and buildMetricRequestV2 on document data: the data as
\* the call leaves it, whether the panel was found, and the queries.
buildMetricRequest(data, panelID, reqDTO) ==
    LET isV2 == Has(data, "elements")
        grouped == IF isV2 THEN groupQueriesByPanelIdV2(data)
                   ELSE groupQueriesByPanelId(data)
        ok == panelID \in DOMAIN grouped.result
        queries == IF ok THEN grouped.result[panelID] ELSE <<>>
    IN [ok |-> ok,
        Queries |-> queries,
        wrote |-> \E id \in DOMAIN grouped.result : Len(grouped.result[id]) > 0,
        data |-> LET safe == getSafeIntervalAndMaxDataPoints(reqDTO)
                 IN setOnQueries(grouped.data, queries, 1, safe.safeInterval,
                                 safe.safeResolution, reqDTO.queryCachingTTL)]

(***************************************************************************)
(* applyTemplateVariables: the deep copy                                   *)
(***************************************************************************)
\* simplejson Encode (json.Marshal) of document data: it fails on a value
\* JSON cannot hold; otherwise the bytes determine the data, key order aside.
Encode(data, flaw) == [ok |-> flaw # "encode", bytes |-> data]

\* simplejson.NewJson: parses bytes into a tree of fresh nodes.
NewJson(bytes, flaw) == [ok |-> flaw # "parse", data |-> bytes]

Stored == "stored"

\* A faulty allocation: the "copy" lives at the address of its input.
AliasDashboard(r, address) == address

\* &dashboards.Dashboard{...}: the address of the copy request r allocates.
NewDashboard(r, address) == r

(***************************************************************************)
(* Requests                                                                *)
(***************************************************************************)
Reqs == {"r1", "r2"}

NilVariables == [nil |-> TRUE, m |-> <<>>]
Variables(m) == [nil |-> FALSE, m |-> m]

\* queryDto.Variables != nil && len(queryDto.Variables) > 0
hasVariables(queryDto) ==
    ~queryDto.variables.nil /\ Cardinality(DOMAIN queryDto.variables.m) > 0

Errors ==
    {"ErrPublicDashboardNotFound", "ErrBadRequest", "ErrPanelNotFound",
     "ErrPanelQueriesNotFound", "ErrQueryData"}

\* Positions from which the request still runs.
Running == {"start", "found", "applied", "built"}

\* The queries of request r's MetricRequest as they read now.
Deref(r) ==
    [i \in 1..Len(metricReq[r].Queries) |->
        QueryAt(heap[dash[r]], metricReq[r].Queries[i])]

(***************************************************************************)
(* Time window resolver                                                    *)
(***************************************************************************)
\* simplejson Get(key) where the parent may be missing: the empty object.
Get(j, key) == IF Has(j, key) THEN j[key] ELSE <<>>

\* Zone names time.LoadLocation knows; "" and "UTC" both load UTC.
KnownZones == { <<>>, <<"UTC">>, <<"Europe/Helsinki">> }

LoadLocation(name) ==
    [ok |-> name \in KnownZones,
     loc |-> IF name = <<>> THEN <<"UTC">> ELSE name]

RECURSIVE getPanelRelativeTimeRangeFrom(_, _, _)
getPanelRelativeTimeRangeFrom(panels, i, panelID) ==
    IF i > Len(panels) THEN <<>>
    ELSE IF MustInt64(panels[i], "id") = panelID
    THEN MustString(panels[i], "timeFrom")
    ELSE getPanelRelativeTimeRangeFrom(panels, i + 1, panelID)

getPanelRelativeTimeRange(dashboard, panelID) ==
    getPanelRelativeTimeRangeFrom(MustArray(dashboard, "panels"), 1, panelID)

\* What the v2 loop returns when it stops at element.
elementTimeFrom(element) ==
    LET queryOptions == Get(Get(Get(Get(element, "spec"), "data"), "spec"),
                            "queryOptions")
    IN MustString(queryOptions, "timeFrom")

\* The elements of a v2 document are a map: the loop stops at whichever
\* element with the requested id it meets first.
getPanelRelativeTimeRangeV2(dashboard, panelID) ==
    IF ~Has(dashboard, "elements") THEN {<<>>}
    ELSE LET matching == {key \in DOMAIN dashboard.elements :
                             MustInt64(Get(dashboard.elements[key], "spec"), "id")
                                 = panelID}
         IN IF matching = {} THEN {<<>>}
            ELSE {elementTimeFrom(dashboard.elements[key]) : key \in matching}

\* A faulty resolver: the request's time range and timezone are honoured
\* whether or not time selection is enabled.
timeRangeValuesAlwaysFromRequest(from, to, dashboardTimezone, panelRelativeTime, reqDTO, timeSelectionEnabled) ==
    LET from1 == IF panelRelativeTime # <<>> THEN panelRelativeTime ELSE from
        both == reqDTO.timeRange.from # <<>> /\ reqDTO.timeRange.to # <<>>
        from2 == IF both THEN reqDTO.timeRange.from ELSE from1
        to2 == IF both THEN reqDTO.timeRange.to ELSE to
        userTimezone == LoadLocation(reqDTO.timeRange.timezone)
        timezone == LoadLocation(dashboardTimezone)
    IN IF reqDTO.timeRange.timezone # <<>> /\ userTimezone.ok
       THEN [from |-> from2, to |-> to2, timezone |-> userTimezone.loc]
       ELSE IF ~timezone.ok
       THEN [from |-> from2, to |-> to2, timezone |-> <<"UTC">>]
       ELSE [from |-> from2, to |-> to2, timezone |-> timezone.loc]

\* A faulty resolver: the request's timezone is looked at only when the
\* request's from and to are used.
timeRangeValuesZoneWithRange(from, to, dashboardTimezone, panelRelativeTime, reqDTO, timeSelectionEnabled) ==
    LET from1 == IF panelRelativeTime # <<>> THEN panelRelativeTime ELSE from
        both == /\ timeSelectionEnabled
                /\ reqDTO.timeRange.from # <<>> /\ reqDTO.timeRange.to # <<>>
        from2 == IF both THEN reqDTO.timeRange.from ELSE from1
        to2 == IF both THEN reqDTO.timeRange.to ELSE to
        userTimezone == LoadLocation(reqDTO.timeRange.timezone)
        timezone == LoadLocation(dashboardTimezone)
    IN IF both /\ reqDTO.timeRange.timezone # <<>> /\ userTimezone.ok
       THEN [from |-> from2, to |-> to2, timezone |-> userTimezone.loc]
       ELSE IF ~timezone.ok
       THEN [from |-> from2, to |-> to2, timezone |-> <<"UTC">>]
       ELSE [from |-> from2, to |-> to2, timezone |-> timezone.loc]

\* The part getTimeRangeValuesOrDefault and getTimeRangeValuesOrDefaultV2
\* have in common, from the panel override on.
timeRangeValuesOrDefault(from, to, dashboardTimezone, panelRelativeTime, reqDTO, timeSelectionEnabled) ==
    LET from1 == IF panelRelativeTime # <<>> THEN panelRelativeTime ELSE from
        both == /\ timeSelectionEnabled
                /\ reqDTO.timeRange.from # <<>> /\ reqDTO.timeRange.to # <<>>
        from2 == IF both THEN reqDTO.timeRange.from ELSE from1
        to2 == IF both THEN reqDTO.timeRange.to ELSE to
        userTimezone == LoadLocation(reqDTO.timeRange.timezone)
        timezone == LoadLocation(dashboardTimezone)
    IN IF /\ timeSelectionEnabled /\ reqDTO.timeRange.timezone # <<>>
          /\ userTimezone.ok
       THEN [from |-> from2, to |-> to2, timezone |-> userTimezone.loc]
       ELSE IF ~timezone.ok
       THEN [from |-> from2, to |-> to2, timezone |-> <<"UTC">>]
       ELSE [from |-> from2, to |-> to2, timezone |-> timezone.loc]

getTimeRangeValuesOrDefault(reqDTO, d, timeSelectionEnabled, panelID) ==
    timeRangeValuesOrDefault(
        MustString(Get(d, "time"), "from"), MustString(Get(d, "time"), "to"),
        MustString(d, "timezone"), getPanelRelativeTimeRange(d, panelID),
        reqDTO, timeSelectionEnabled)

\* One result for each element the v2 loop may stop at.
getTimeRangeValuesOrDefaultV2(d, reqDTO, timeSelectionEnabled, panelID) ==
    LET timeSettings == Get(d, "timeSettings")
    IN { timeRangeValuesOrDefault(
             MustString(timeSettings, "from"), MustString(timeSettings, "to"),
             MustString(timeSettings, "timezone"), panelRelativeTime,
             reqDTO, timeSelectionEnabled) :
           panelRelativeTime \in getPanelRelativeTimeRangeV2(d, panelID) }

\* The clock of the model, in milliseconds since the epoch.
NowMs == 169200000

DayMs == 86400000

\* Milliseconds east of UTC.
ZoneOffsetMs(loc) == IF loc = <<"Europe/Helsinki">> THEN 7200000 ELSE 0

DurationMs(unit) ==
    CASE unit = "5m" -> 300000
      [] unit = "1h" -> 3600000
      [] unit = "6h" -> 21600000
      [] OTHER -> -1

\* gtime.TimeRange.ParseFrom / ParseTo with gtime.WithLocation(loc): now,
\* now-<duration>, now/d; anything else is an error.
ParseTime(expr, loc) ==
    IF expr = <<"now">> THEN [ok |-> TRUE, ms |-> NowMs]
    ELSE IF Len(expr) = 3 /\ expr[1] = "now" /\ expr[2] = "-"
            /\ DurationMs(expr[3]) > 0
    THEN [ok |-> TRUE, ms |-> NowMs - DurationMs(expr[3])]
    ELSE IF expr = <<"now", "/", "d">>
    THEN [ok |-> TRUE,
          ms |-> ((NowMs + ZoneOffsetMs(loc)) \div DayMs) * DayMs - ZoneOffsetMs(loc)]
    ELSE [ok |-> FALSE, ms |-> 0]

\* strconv.FormatInt(n, 10) of n >= 0.
RECURSIVE FormatInt(_)
FormatInt(n) ==
    IF n < 10 THEN <<Digits[n + 1]>>
    ELSE Append(FormatInt(n \div 10), Digits[(n % 10) + 1])

\* UnixMilli of the zero time.Time, which is what a failed parse leaves.
ZeroTimeUnixMilli ==
    <<"-", "6", "2", "1", "3", "5", "5", "9", "6", "8", "0", "0", "0", "0", "0">>

UnixMilliString(parsed) ==
    IF parsed.ok THEN FormatInt(parsed.ms) ELSE ZeroTimeUnixMilli

\* buildTimeSettings and buildTimeSettingsV2 from the resolved values on.
timeSettingsOf(values) ==
    [From |-> UnixMilliString(ParseTime(values.from, values.timezone)),
     To |-> UnixMilliString(ParseTime(values.to, values.timezone))]

buildTimeSettings(d, reqDTO, timeSelectionEnabled, panelID) ==
    timeSettingsOf(getTimeRangeValuesOrDefault(reqDTO, d, timeSelectionEnabled, panelID))

buildTimeSettingsV2(d, reqDTO, timeSelectionEnabled, panelID) ==
    { timeSettingsOf(values) :
        values \in getTimeRangeValuesOrDefaultV2(d, reqDTO, timeSelectionEnabled, panelID) }

(***************************************************************************)
(* Specification of the time window resolver alone                         *)
(***************************************************************************)
\* An optional field: None leaves the field out, Some(v) sets it to v.
None == <<>>
Some(v) == <<v>>
WithOptional(j, key, opt) == IF opt = None THEN j ELSE Set(j, key, opt[1])

Now6h == <<"now", "-", "6h">>
Now5m == <<"now", "-", "5m">>
Now1h == <<"now", "-", "1h">>

TimeDocsV1 ==
    { WithOptional(WithOptional(
          [panels |-> << WithOptional([id |-> 1, type |-> <<"graph">>],
                                      "timeFrom", tf[1]),
                         [id |-> 2, type |-> <<"row">>, collapsed |-> TRUE,
                          panels |-> << WithOptional([id |-> 3, type |-> <<"stat">>],
                                                     "timeFrom", tf[2]) >>] >>],
          "time", doc[1]), "timezone", doc[2]) :
        tf \in {None, Some(<<>>), Some(Now5m)} \X {None, Some(Now5m)},
        doc \in {None, Some([from |-> Now6h, to |-> <<"now">>]),
                 Some([from |-> <<"now", "/", "d">>, to |-> <<"now">>])}
               \X {None, Some(<<"Europe/Helsinki">>), Some(<<"bogus">>)} }

TimeElement(id, data) ==
    [kind |-> "Panel", spec |-> WithOptional([id |-> id], "data", data)]

TimeElementData ==
    {None,
     Some([kind |-> "QueryGroup", spec |-> [queries |-> <<>>]]),
     Some([kind |-> "QueryGroup",
           spec |-> [queries |-> <<>>, queryOptions |-> [maxDataPoints |-> 100]]]),
     Some([kind |-> "QueryGroup",
           spec |-> [queries |-> <<>>, queryOptions |-> [timeFrom |-> Now5m]]])}

\* The last document holds two elements with the same id.
TimeDocsV2 ==
    { WithOptional([elements |-> ("panel-1" :> TimeElement(1, data)
                                  @@ "panel-3" :> TimeElement(3, None))],
                   "timeSettings", timeSettings) :
        data \in TimeElementData,
        timeSettings \in {None, Some([from |-> Now6h, to |-> <<"now">>]),
                          Some([from |-> Now6h, to |-> <<"now">>,
                                timezone |-> <<"Europe/Helsinki">>])} }
    \cup
    { [elements |-> ("panel-1" :> TimeElement(1, None)
                     @@ "panel-3" :> TimeElement(1,
                            Some([kind |-> "QueryGroup",
                                  spec |-> [queries |-> <<>>,
                                            queryOptions |-> [timeFrom |-> Now5m]]]))),
       timeSettings |-> [from |-> Now6h, to |-> <<"now">>]] }

TimeRanges ==
    [from : {<<>>, Now1h}, to : {<<>>, <<"now">>},
     timezone : {<<>>, <<"UTC">>, <<"Europe/Helsinki">>, <<"bogus">>}]

TimeInputs ==
    [d : TimeDocsV1 \cup TimeDocsV2, reqDTO : [timeRange : TimeRanges],
     panelID : {1, 3}, timeSelectionEnabled : BOOLEAN]

InitTime ==
    /\ timeIn \in TimeInputs
    /\ timeOut = <<>>
    /\ phase = "time-in"
    /\ text = <<>> /\ variables = <<>> /\ valueStrs = <<>> /\ result = <<>>
    /\ heap = <<>> /\ unsupported = FALSE /\ req = <<>> /\ pc = <<>>
    /\ dash = <<>> /\ source = <<>> /\ metricReq = <<>> /\ sent = <<>>
    /\ reads = <<>> /\ writes = <<>> /\ original = <<>> /\ ret = <<>>
    /\ calls = <<>>
    /\ vreq = <<>> /\ vpc = "idle" /\ variable = <<>> /\ exec = <<>> /\ vret = <<>>

\* What buildTimeSettings or buildTimeSettingsV2, as buildMetricRequest picks
\* between them, may resolve for the input: from, to, timezone and the
\* TimeSettings made of them.
resolveTimeWindow(in) ==
    { [from |-> values.from, to |-> values.to, timezone |-> values.timezone,
       ts |-> timeSettingsOf(values)] :
        values \in
          (IF Has(in.d, "elements")
           THEN getTimeRangeValuesOrDefaultV2(in.d, in.reqDTO,
                    in.timeSelectionEnabled, in.panelID)
           ELSE {getTimeRangeValuesOrDefault(in.reqDTO, in.d,
                    in.timeSelectionEnabled, in.panelID)}) }

\* The call of buildTimeSettings or buildTimeSettingsV2 in buildMetricRequest.
BuildTimeSettings ==
    /\ phase = "time-in"
    /\ timeOut' \in resolveTimeWindow(timeIn)
    /\ phase' = "time-out"
    /\ UNCHANGED <<text, variables, valueStrs, result, timeIn>>
    /\ UNCHANGED <<qvars, rvars>>

NextTime == BuildTimeSettings

SpecTime == InitTime /\ [][NextTime]_vars

(***************************************************************************)
(* Variable option resolver (query_variables.go).  Strings of this part    *)
(* are sequences of one-character tokens.                                  *)
(***************************************************************************)
\* A JSON object held by an interface{}: map[string]interface{}.
Obj(m) == [t |-> "map", m |-> m]

\* []models.MetricFindValue: a nil slice and an empty one differ (the first
\* marshals to null, the second to []).
NilOptions == [nil |-> TRUE, items |-> <<>>]
EmptyOptions == [nil |-> FALSE, items |-> <<>>]
MetricFindValue(txt, value) == [Text |-> txt, Value |-> value]
append(options, opt) == [nil |-> FALSE, items |-> Append(options.items, opt)]

\* The upper-case letters of the strings below.
UpperToLower ==
    ("A" :> "a") @@ ("B" :> "b") @@ ("E" :> "e") @@ ("L" :> "l") @@ ("T" :> "t")
    @@ ("U" :> "u") @@ ("V" :> "v") @@ ("X" :> "x")

ToLower(s) ==
    [i \in 1..Len(s) |-> IF s[i] \in DOMAIN UpperToLower THEN UpperToLower[s[i]] ELSE s[i]]

stringsContains(s, substr) == \E i \in 1..(Len(s) + 1) : HasPrefixAt(s, i, substr)

RECURSIVE TrimLeft(_)
TrimLeft(s) == IF s # <<>> /\ Head(s) = " " THEN TrimLeft(Tail(s)) ELSE s

RECURSIVE TrimRight(_)
TrimRight(s) ==
    IF s # <<>> /\ s[Len(s)] = " " THEN TrimRight(SubSeq(s, 1, Len(s) - 1)) ELSE s

TrimSpace(s) == TrimRight(TrimLeft(s))

\* Position of the first token sep in s, 0 when there is none.
Index(s, sep) ==
    IF \E i \in 1..Len(s) : s[i] = sep
    THEN CHOOSE i \in 1..Len(s) : s[i] = sep /\ \A j \in 1..(i - 1) : s[j] # sep
    ELSE 0

\* strings.Split(s, sep) for a one-character sep.
RECURSIVE Split(_, _)
Split(s, sep) ==
    LET i == Index(s, sep)
    IN IF i = 0 THEN <<s>>
       ELSE <<SubSeq(s, 1, i - 1)>> \o Split(SubSeq(s, i + 1, Len(s)), sep)

\* A split at the last separator in place of the first.
SplitAtLast(s, sep) ==
    LET at == {i \in 1..Len(s) : s[i] = sep}
        i == CHOOSE k \in at : \A j \in at : j <= k
    IN IF at = {} THEN <<s>> ELSE <<SubSeq(s, 1, i - 1), SubSeq(s, i + 1, Len(s))>>

\* strings.SplitN(s, sep, 2)
SplitN2(s, sep) ==
    LET i == Index(s, sep)
    IN IF i = 0 THEN <<s>> ELSE <<SubSeq(s, 1, i - 1), SubSeq(s, i + 1, Len(s))>>

\* json.Unmarshal of a templating.list entry into variableDefinition: absent
\* fields keep their zero values, and a "datasource" that is a JSON string
\* does not fit map[string]interface{}.
Unmarshal(varJSON) ==
    [ok |-> ~(Has(varJSON, "datasource") /\ Has(varJSON.datasource, "str")),
     variable |->
        [Name |-> MustString(varJSON, "name"),
         Type |-> MustString(varJSON, "type"),
         Query |-> IF Has(varJSON, "query") THEN varJSON.query ELSE Nil,
         Datasource |-> IF Has(varJSON, "datasource") /\ ~Has(varJSON.datasource, "str")
                        THEN Obj(varJSON.datasource) ELSE Nil,
         Options |-> [i \in 1..Len(MustArray(varJSON, "options")) |->
                         LET opt == varJSON.options[i]
                         IN [Text |-> IF Has(opt, "text") THEN opt.text ELSE Nil,
                             Value |-> IF Has(opt, "value") THEN opt.value ELSE Nil]],
         Current |-> LET current == Get(varJSON, "current")
                     IN [Text |-> IF Has(current, "text") THEN current.text ELSE Nil,
                         Value |-> IF Has(current, "value") THEN current.value ELSE Nil]]]

\* The loop of findVariableInDashboard from entry i on.
RECURSIVE findVariableFrom(_, _, _)
findVariableFrom(list, i, variableName) ==
    IF i > Len(list)
    THEN [err |-> "ErrVariableNotFound", variable |-> Nil]
    ELSE IF MustString(list[i], "name") = variableName
    THEN LET decoded == Unmarshal(list[i])
         IN IF decoded.ok THEN [err |-> "none", variable |-> decoded.variable]
            ELSE [err |-> "ErrInternalServerError", variable |-> Nil]
    ELSE findVariableFrom(list, i + 1, variableName)

\* A lookup that compares the names without regard to case.
findVariableIgnoringCase(data, variableName) ==
    IF ~Has(data, "templating")
    THEN [err |-> "ErrVariableNotFound", variable |-> Nil]
    ELSE IF ~Has(data.templating, "list")
    THEN [err |-> "ErrVariableNotFound", variable |-> Nil]
    ELSE findVariableFrom(
             [i \in 1..Len(data.templating.list) |->
                 Set(data.templating.list[i], "name",
                     ToLower(MustString(data.templating.list[i], "name")))],
             1, ToLower(variableName))

findVariableInDashboard(data, variableName) ==
    IF ~Has(data, "templating")
    THEN [err |-> "ErrVariableNotFound", variable |-> Nil]
    ELSE IF ~Has(data.templating, "list")
    THEN [err |-> "ErrVariableNotFound", variable |-> Nil]
    ELSE findVariableFrom(data.templating.list, 1, variableName)

\* The []interface{} loop of getCurrentValueAsOption from element i on.
RECURSIVE currentValuesFrom(_, _, _, _)
currentValuesFrom(v, texts, i, options) ==
    IF i > Len(v) THEN options
    ELSE currentValuesFrom(v, texts, i + 1,
             IF v[i].t = "string" /\ v[i].v # <<>>
             THEN append(options,
                      MetricFindValue(
                          IF texts.t = "list" /\ i <= Len(texts.v) /\ texts.v[i].t = "string"
                          THEN texts.v[i].v ELSE v[i].v,
                          v[i].v))
             ELSE options)

getCurrentValueAsOption(var) ==
    LET value == var.Current.Value
        txt == var.Current.Text
    IN CASE value.t = "nil" -> EmptyOptions
         [] value.t = "string" ->
               IF value.v # <<>>
               THEN append(NilOptions,
                        MetricFindValue(
                            IF txt.t = "string" /\ txt.v # <<>> THEN txt.v ELSE value.v,
                            value.v))
               ELSE NilOptions
         [] value.t = "list" -> currentValuesFrom(value.v, txt, 1, NilOptions)
         [] OTHER -> NilOptions

\* The loop of getCustomVariableOptions from value i on.
RECURSIVE customValuesFrom(_, _, _)
customValuesFrom(values, i, options) ==
    IF i > Len(values) THEN options
    ELSE LET v == TrimSpace(values[i])
             parts == SplitN2(v, ":")
         IN customValuesFrom(values, i + 1,
                IF v = <<>> THEN options
                ELSE IF Len(parts) = 2
                THEN append(options,
                         MetricFindValue(TrimSpace(parts[1]), TrimSpace(parts[2])))
                ELSE append(options, MetricFindValue(v, v)))

getCustomVariableOptions(var) ==
    IF var.Query.t # "string" THEN NilOptions
    ELSE customValuesFrom(Split(var.Query.v, ","), 1, NilOptions)

\* The string a text or value of the definition stands for: itself, or the
\* first element of a list printed with %v.
firstAsString(x) ==
    CASE x.t = "string" -> x.v
      [] x.t = "list" -> IF Len(x.v) > 0 THEN Sprintf(x.v[1]) ELSE <<>>
      [] OTHER -> <<>>

getConstantVariableOptions(var) ==
    LET value == firstAsString(var.Current.Value)
        t == var.Current.Text
    IN IF value # <<>>
       THEN append(NilOptions,
                MetricFindValue(IF t.t = "string" /\ t.v # <<>> THEN t.v ELSE value,
                                value))
       ELSE NilOptions

\* The loop of getStaticVariableOptions from option i on.
RECURSIVE staticOptionsFrom(_, _, _)
staticOptionsFrom(opts, i, options) ==
    IF i > Len(opts) THEN options
    ELSE LET txt == firstAsString(opts[i].Text)
             value == firstAsString(opts[i].Value)
         IN staticOptionsFrom(opts, i + 1,
                IF txt # <<>> \/ value # <<>>
                THEN append(options,
                         MetricFindValue(IF txt = <<>> THEN value ELSE txt,
                                         IF value = <<>> THEN txt ELSE value))
                ELSE options)

\* A static branch that keeps the entries that have neither text nor value.
getStaticVariableOptionsKeepingEmpty(var) ==
    [nil |-> Len(var.Options) = 0,
     items |-> [i \in 1..Len(var.Options) |->
                   LET txt == firstAsString(var.Options[i].Text)
                       value == firstAsString(var.Options[i].Value)
                   IN MetricFindValue(IF txt = <<>> THEN value ELSE txt,
                                      IF value = <<>> THEN txt ELSE value)]]

getStaticVariableOptions(var) == staticOptionsFrom(var.Options, 1, NilOptions)

intervals ==
    << <<"1", "m">>, <<"5", "m">>, <<"1", "0", "m">>, <<"3", "0", "m">>, <<"1", "h">>,
       <<"6", "h">>, <<"1", "2", "h">>, <<"1", "d">>, <<"7", "d">>, <<"1", "4", "d">>,
       <<"3", "0", "d">> >>

\* An interval branch that never looks at the declared options.
getIntervalVariableOptionsBuiltInOnly(var) ==
    [nil |-> FALSE,
     items |-> [i \in 1..Len(intervals) |-> MetricFindValue(intervals[i], intervals[i])]]

getIntervalVariableOptions(var) ==
    IF Len(var.Options) > 0 THEN getStaticVariableOptions(var)
    ELSE [nil |-> FALSE,
          items |-> [i \in 1..Len(intervals) |->
                        MetricFindValue(intervals[i], intervals[i])]]

\* The loop of filterVariableOptions from option i on.
RECURSIVE filterFrom(_, _, _, _)
filterFrom(items, i, filter, filtered) ==
    IF i > Len(items) THEN filtered
    ELSE filterFrom(items, i + 1, filter,
             IF \/ stringsContains(ToLower(items[i].Text), filter)
                \/ stringsContains(ToLower(items[i].Value), filter)
             THEN append(filtered, items[i])
             ELSE filtered)

\* A filter that lowers the options' strings and not the filter.
filterVariableOptionsFilterAsTyped(options, filter) ==
    filterFrom(options.items, 1, filter, NilOptions)

filterVariableOptions(options, filter) ==
    filterFrom(options.items, 1, ToLower(filter), NilOptions)

\* The part of getVariableOptions that follows the switch on variable.Type:
\* the current value when no option was found, and never a nil slice.
withCurrentValueFallback(var, options) ==
    LET options1 == IF Len(options.items) = 0 THEN getCurrentValueAsOption(var)
                    ELSE options
    IN IF options1.nil THEN EmptyOptions ELSE options1

\* The branches of getVariableOptions that call no collaborator.
staticBranch(var) ==
    CASE var.Type = <<"c", "u", "s", "t", "o", "m">> -> getCustomVariableOptions(var)
      [] var.Type = <<"c", "o", "n", "s", "t", "a", "n", "t">> ->
            getConstantVariableOptions(var)
      [] var.Type = <<"i", "n", "t", "e", "r", "v", "a", "l">> ->
            getIntervalVariableOptions(var)
      [] OTHER -> getStaticVariableOptions(var)

IsQueryVariable(var) == var.Type = <<"q", "u", "e", "r", "y">>

\* dsUID of getQueryVariableOptions.
variableDatasourceUid(var) ==
    IF var.Datasource.t = "map" /\ Has(var.Datasource.m, "uid")
       /\ var.Datasource.m.uid.t = "string"
    THEN var.Datasource.m.uid.v ELSE <<>>

\* The MetricRequest getQueryVariableOptions builds for the variable.
variableMetricRequest(var, reqDTO, order) ==
    LET q == var.Query
        queryStr0 == CASE q.t = "string" -> q.v
                       [] q.t = "map" -> IF Has(q.m, "query") /\ q.m.query.t = "string"
                                         THEN q.m.query.v ELSE <<>>
                       [] OTHER -> <<>>
        queryObj0 == CASE q.t = "string" -> [query |-> Str(queryStr0)]
                       [] q.t = "map" -> q.m
                       [] OTHER -> <<>>
        interpolate == ~reqDTO.variables.nil /\ queryStr0 # <<>>
        queryStr == IF interpolate
                    THEN interpolateVariables(queryStr0, reqDTO.variables.m, order)
                    ELSE queryStr0
        queryObj == IF interpolate THEN Set(queryObj0, "query", Str(queryStr))
                    ELSE queryObj0
        base == [refId |-> Str(<<"A">>), datasource |-> var.Datasource]
        copied == [k \in DOMAIN base \cup DOMAIN queryObj |->
                      IF k \in DOMAIN queryObj THEN queryObj[k] ELSE base[k]]
        queryData == IF queryStr # <<>>
                     THEN [k \in DOMAIN copied \cup {"query", "expr", "rawQuery", "rawSql"} |->
                              CASE k \in {"query", "expr", "rawSql"} -> Str(queryStr)
                                [] k = "rawQuery" -> Bool(TRUE)
                                [] OTHER -> copied[k]]
                     ELSE copied
    IN [From |-> <<"n", "o", "w", "-", "1", "h">>, To |-> <<"n", "o", "w">>,
        Queries |-> <<queryData>>]

(***************************************************************************)
(* backend.QueryDataResponse                                               *)
(***************************************************************************)
NilFrame == [t |-> "nil"]
Frame(meta, fields) == [t |-> "frame", Meta |-> meta, Fields |-> fields]
FrameMeta(executedQueryString) ==
    [t |-> "meta", ExecutedQueryString |-> executedQueryString, Channel |-> <<"c">>]
Field(name, values) == [t |-> "field", Name |-> name, values |-> values]
DataResponse(frames, failed) == [Frames |-> frames, Error |-> failed]

\* A conversion without the test for nil: %v prints a nil as <nil>.
fieldValueToStringPrintingNil(v) ==
    CASE v.t = "nil" -> <<"<nil>">>
      [] v.t = "string" -> v.v
      [] OTHER -> Sprintf(v)

fieldValueToString(v) ==
    CASE v.t = "nil" -> <<>>
      [] v.t = "string" -> v.v
      [] OTHER -> Sprintf(v)

\* The text and value fields extractOptionsFromQueryResponse settles on for a
\* frame: the last field of each group of names, else the first field.
RECURSIVE pickFields(_, _, _, _)
pickFields(fields, i, textField, valueField) ==
    IF i > Len(fields)
    THEN LET useFirst == Len(fields) > 0 /\ fields[1].t # "nil"
             text1 == IF useFirst /\ textField.t = "nil" THEN fields[1] ELSE textField
             value1 == IF useFirst /\ valueField.t = "nil" THEN text1 ELSE valueField
         IN [textField |-> text1, valueField |-> value1]
    ELSE IF fields[i].t = "nil" THEN pickFields(fields, i + 1, textField, valueField)
    ELSE LET name == ToLower(fields[i].Name)
         IN pickFields(fields, i + 1,
                IF name \in { <<"t", "e", "x", "t">>, <<"_", "_", "t", "e", "x", "t">>,
                              <<"n", "a", "m", "e">>, <<"l", "a", "b", "e", "l">> }
                THEN fields[i] ELSE textField,
                IF name \in { <<"v", "a", "l", "u", "e">>,
                              <<"_", "_", "v", "a", "l", "u", "e">>, <<"i", "d">> }
                THEN fields[i] ELSE valueField)

RECURSIVE rowsFrom(_, _, _, _)
rowsFrom(textField, valueField, i, options) ==
    IF i > Len(textField.values) THEN options
    ELSE LET txt == fieldValueToString(textField.values[i])
             value == IF valueField.t # "nil" /\ i <= Len(valueField.values)
                      THEN fieldValueToString(valueField.values[i]) ELSE txt
         IN rowsFrom(textField, valueField, i + 1,
                IF txt # <<>> THEN append(options, MetricFindValue(txt, value))
                ELSE options)

RECURSIVE framesFrom(_, _, _)
framesFrom(frames, i, options) ==
    IF i > Len(frames) THEN options
    ELSE IF frames[i].t = "nil" THEN framesFrom(frames, i + 1, options)
    ELSE LET picked == pickFields(frames[i].Fields, 1, Nil, Nil)
         IN framesFrom(frames, i + 1,
                IF picked.textField.t = "nil" THEN options
                ELSE rowsFrom(picked.textField, picked.valueField, 1, options))

RECURSIVE responsesFrom(_, _, _, _)
responsesFrom(responses, order, i, options) ==
    IF i > Len(order) THEN options
    ELSE responsesFrom(responses, order, i + 1,
             IF responses[order[i]].Error THEN options
             ELSE framesFrom(responses[order[i]].Frames, 1, options))

\* extractOptionsFromQueryResponse, the map res.Responses ranged over in the
\* given order.
extractOptionsFromQueryResponse(res, order) ==
    responsesFrom(res, order, 1, EmptyOptions)

\* A sanitizer that stops after the first frame of each response.
sanitizeFirstFrameOnly(res) ==
    [k \in DOMAIN res |->
        [res[k] EXCEPT !.Frames =
            [i \in 1..Len(@) |->
                IF i = 1 /\ @[i].Meta.t # "nil"
                THEN [@[i] EXCEPT !.Meta.ExecutedQueryString = <<>>]
                ELSE @[i]]]]

\* sanitizeMetadataFromQueryData on a response whose frames are all non-nil.
sanitizeMetadataFromQueryData(res) ==
    [k \in DOMAIN res |->
        [res[k] EXCEPT !.Frames =
            [i \in 1..Len(@) |->
                IF @[i].Meta.t # "nil"
                THEN [@[i] EXCEPT !.Meta.ExecutedQueryString = <<>>]
                ELSE @[i]]]]

\* frames[i].Meta of a nil frame: a nil pointer dereference.
sanitizePanics(res) ==
    \E k \in DOMAIN res : \E i \in 1..Len(res[k].Frames) : res[k].Frames[i].t = "nil"

(***************************************************************************)
(* Specification of interpolateVariables alone                             *)
(***************************************************************************)
Pieces ==
    { <<"$", "a">>, <<"$", "{", "a", "}">>, <<"$", "b">>, <<"$", "{", "b", "}">>,
      <<"a">>, <<"b">>, <<".">>, <<"$">> }

Texts == {Concat(ps) : ps \in UNION {[1..n -> Pieces] : n \in 0..MaxPieces}}

NameA == <<"a">>
NameB == <<"b">>
NameEmpty == <<>>

ValuesA ==
    { Nil, Str(<<"x">>), Str(<<"$", "b">>), Str(<<"$", "$", "b">>), Num(7), Bool(TRUE),
      List(<<Str(<<"x">>), Str(<<"y">>)>>), List(<<Str(<<"x">>), Num(7), Str(<<"y">>)>>),
      List(<<>>) }
ValuesB == {Nil, Str(<<"y">>)}
ValuesEmpty == {Str(<<"x">>)}

\* A name that holds a dot, and so has the name a before a word boundary.
NameAB == <<"a", ".", "b">>

VariableMaps ==
    { m \in UNION {[ks -> ValuesA \cup ValuesB \cup ValuesEmpty] :
                      ks \in SUBSET {NameA, NameB, NameEmpty}} :
        /\ NameA \in DOMAIN m => m[NameA] \in ValuesA
        /\ NameB \in DOMAIN m => m[NameB] \in ValuesB
        /\ NameEmpty \in DOMAIN m => m[NameEmpty] \in ValuesEmpty }
    \cup
    { (NameAB :> Str(<<"z">>)) @@ m :
        m \in UNION {[ks -> {Str(<<"x">>), Str(<<"b">>)}] : ks \in SUBSET {NameA, NameB}} }

InitInterp ==
    /\ text \in Texts
    /\ variables \in VariableMaps
    /\ valueStrs = <<>>
    /\ result = <<>>
    /\ phase = "in"
    /\ heap = <<>> /\ unsupported = FALSE /\ req = <<>> /\ pc = <<>>
    /\ dash = <<>> /\ source = <<>> /\ metricReq = <<>> /\ sent = <<>>
    /\ reads = <<>> /\ writes = <<>> /\ original = <<>> /\ ret = <<>>
    /\ calls = <<>>
    /\ timeIn = <<>> /\ timeOut = <<>>
    /\ vreq = <<>> /\ vpc = "idle" /\ variable = <<>> /\ exec = <<>> /\ vret = <<>>

Interpolate ==
    /\ phase = "in"
    /\ \E order \in Orders(variables) :
          result' = interpolateVariables(text, variables, order)
    /\ valueStrs' = [k \in {n \in DOMAIN variables : variables[n].t # "nil"} |->
                        variableValueToString(variables[k])]
    /\ phase' = "out"
    /\ UNCHANGED <<text, variables>>
    /\ UNCHANGED <<qvars, tvars, rvars>>

NextInterp == Interpolate

SpecInterp == InitInterp /\ [][NextInterp]_vars

(***************************************************************************)
(* Documents                                                               *)
(***************************************************************************)
PlainTarget ==
    [refId |-> <<"A">>, expr |-> <<"up", "{", "$", "{", "a", "}", "}">>,
     rawSql |-> <<"$", "a">>, exemplar |-> TRUE]

HiddenTarget ==
    [refId |-> <<"B">>, expr |-> <<"$", "a">>, hide |-> TRUE,
     datasource |-> [type |-> <<"prom">>, uid |-> <<"$", "{", "a", "}">>]]

ShownTarget ==
    [refId |-> <<"$", "a">>, query |-> <<"$", "a", ".", "b">>, hide |-> FALSE,
     exemplar |-> TRUE, datasource |-> [type |-> <<"prom">>, uid |-> <<"ds">>]]

ExprTarget ==
    [refId |-> <<"D">>, expression |-> <<"$", "a">>,
     datasource |-> [type |-> <<"__expr__">>, uid |-> <<"__expr__">>]]

OldExprTarget ==
    [refId |-> <<"E">>, hide |-> TRUE, datasource |-> JsonString(<<"__expr__">>)]

TargetShapes == {PlainTarget, HiddenTarget, ShownTarget, ExprTarget, OldExprTarget}

Panel1(targets) ==
    [id |-> 1, type |-> <<"graph">>, title |-> <<"cpu", " ", "$", "a">>,
     description |-> <<"$", "{", "a", "}">>,
     datasource |-> [type |-> <<"prom">>, uid |-> <<"$", "a">>],
     targets |-> targets]

Panel3 ==
    [id |-> 3, type |-> <<"stat">>, title |-> <<"mem">>,
     targets |-> <<PlainTarget, HiddenTarget>>]

Row2(collapsed) ==
    [id |-> 2, type |-> <<"row">>, collapsed |-> collapsed, title |-> <<"$", "a">>,
     panels |-> <<Panel3>>]

V1Doc(targets, collapsed) ==
    [title |-> <<"$", "a">>, uid |-> <<"$", "a">>, schemaVersion |-> 39,
     panels |-> <<Panel1(targets), Row2(collapsed)>>]

\* A collapsed row that holds a collapsed row with a panel in it, and an open
\* row with a panel in it.
DeepDoc ==
    [title |-> <<"$", "a">>, schemaVersion |-> 39,
     panels |->
        << [id |-> 6, type |-> <<"row">>, collapsed |-> TRUE,
            panels |->
               << [id |-> 7, type |-> <<"row">>, collapsed |-> TRUE,
                   panels |-> <<Panel3>>],
                  [id |-> 8, type |-> <<"row">>, collapsed |-> FALSE,
                   panels |-> << [id |-> 9, type |-> <<"stat">>,
                                  targets |-> <<PlainTarget>>] >>] >>] >>]

\* Every list of targets with a collapsed row, the short ones also with an
\* open row; and the document with rows in rows.
V1Docs ==
    { V1Doc(p[1], p[2]) :
        p \in { q \in (UNION {[1..n -> TargetShapes] : n \in 0..MaxTargets}) \X BOOLEAN :
                  q[2] \/ Len(q[1]) <= 1 } }
    \cup {DeepDoc}

PlainQuery ==
    [kind |-> "PanelQuery",
     spec |-> [refId |-> <<"A">>, hidden |-> FALSE,
               query |-> [kind |-> "DataQuery", group |-> <<"prometheus">>,
                          spec |-> [expr |-> <<"$", "a">>, exemplar |-> TRUE]]]]

HiddenQuery ==
    [kind |-> "PanelQuery",
     spec |-> [refId |-> <<"$", "a">>, hidden |-> TRUE,
               query |-> [kind |-> "DataQuery", group |-> <<"loki">>,
                          datasource |-> [name |-> <<"$", "a">>],
                          spec |-> [expr |-> <<"$", "{", "a", "}">>,
                                    datasource |-> [type |-> <<"loki">>,
                                                    uid |-> <<"$", "a">>]]]]]

ExprQuery ==
    [kind |-> "PanelQuery",
     spec |-> [refId |-> <<"C">>, hidden |-> FALSE,
               query |-> [kind |-> "DataQuery", group |-> <<"__expr__">>,
                          datasource |-> [name |-> <<"__expr__">>],
                          spec |-> [expression |-> <<"$", "A">>]]]]

\* An entry that carries no query payload.
EmptyQuery == [kind |-> "PanelQuery", spec |-> [refId |-> <<"D">>, hidden |-> FALSE]]

QueryShapes == {PlainQuery, HiddenQuery, ExprQuery, EmptyQuery}

Element1(queries) ==
    [kind |-> "Panel",
     spec |-> [id |-> 1, title |-> <<"$", "a">>,
               datasource |-> [uid |-> <<"$", "a">>, name |-> <<"$", "{", "a", "}">>],
               data |-> [kind |-> "QueryGroup", spec |-> [queries |-> queries]]]]

\* An element without data.
Element3 == [kind |-> "Panel", spec |-> [id |-> 3, title |-> <<"$", "a">>]]

V2Docs ==
    { [title |-> <<"$", "a">>,
       elements |-> [key \in {"panel-1", "panel-3"} |->
                        IF key = "panel-1" THEN Element1(queries) ELSE Element3]] :
          queries \in UNION {[1..n -> QueryShapes] : n \in 0..MaxTargets} }

Docs == V1Docs \cup V2Docs

(***************************************************************************)
(* Documents with template variables                                       *)
(***************************************************************************)
NameEnv == <<"e", "n", "v">>

\* current of a templating.list entry: absent, empty, a scalar with and
\* without a text, several values, and a value that is no string.
Currents ==
    { None,
      Some([value |-> Str(<<>>)]),
      Some([value |-> Str(<<"x">>)]),
      Some([value |-> Str(<<"x">>), text |-> Str(<<"X">>)]),
      Some([value |-> List(<<Str(<<"x">>), Str(<<>>), Str(<<"a">>)>>),
            text |-> List(<<Str(<<"X">>)>>)]),
      Some([value |-> Num(7), text |-> Str(<<"7">>)]) }

CustomQueries ==
    { None,
      Some(Str(<<"a", ":", "1", ",", "b", ":", "2">>)),
      Some(Str(<<" ", "a", " ", ":", " ", "1", " ", ",", ",", "B">>)),
      Some(Str(<<"a", ":", "1", ":", "2">>)),
      Some(Str(<<"x">>)),
      Some(Str(<<>>)),
      Some(Obj([query |-> Str(<<"a">>)])) }

StaticOptions ==
    { None,
      Some(<<>>),
      Some(<< [text |-> Str(<<"A">>), value |-> Str(<<"a">>)],
              [text |-> List(<<Str(<<"b">>), Str(<<"c">>)>>)],
              [text |-> Str(<<>>), value |-> Str(<<>>)],
              [value |-> Str(<<"x">>)] >>),
      Some(<< [text |-> Str(<<>>)] >>) }

VariableDatasources ==
    { None,
      Some([uid |-> Str(<<>>)]),
      Some([uid |-> Str(<<"d", "s">>), type |-> Str(<<"p", "r", "o", "m">>)]),
      Some(JsonString(<<"d", "s">>)) }

VariableQueries ==
    { None,
      Some(Str(<<"u", "p", "{", "$", "a", "}">>)),
      Some(Obj([query |-> Str(<<"$", "a">>), refId |-> Str(<<"Z">>)])),
      Some(Obj([region |-> Str(<<"$", "a">>)])) }

VariableJSON(type, query, current, options, datasource) ==
    WithOptional(WithOptional(WithOptional(WithOptional(
        [name |-> NameEnv, type |-> type],
        "query", query), "current", current), "options", options),
        "datasource", datasource)

VariableShapes ==
    { VariableJSON(<<"c", "u", "s", "t", "o", "m">>, q, c, None, None) :
        q \in CustomQueries, c \in Currents }
    \cup
    { VariableJSON(<<"c", "o", "n", "s", "t", "a", "n", "t">>, None, c, None, None) :
        c \in Currents }
    \cup
    { VariableJSON(<<"i", "n", "t", "e", "r", "v", "a", "l">>, None, c, o, None) :
        c \in {None, Some([value |-> Str(<<"x">>)])}, o \in StaticOptions }
    \cup
    { VariableJSON(<<"t", "e", "x", "t", "b", "o", "x">>, None, c, o, None) :
        c \in Currents, o \in StaticOptions }
    \cup
    { VariableJSON(<<"q", "u", "e", "r", "y">>, q, c, None, d) :
        q \in VariableQueries, d \in VariableDatasources,
        c \in {None, Some([value |-> Str(<<"x">>), text |-> Str(<<"X">>)])} }

\* A second variable, whose name is a prefix of the first one's.
OtherVariable ==
    [name |-> <<"e", "n">>, type |-> <<"c", "o", "n", "s", "t", "a", "n", "t">>,
     current |-> [value |-> Str(<<"o">>)]]

VariableDocs ==
    { [title |-> <<"d">>], [title |-> <<"d">>, templating |-> [enable |-> TRUE]] }
    \cup
    { [title |-> <<"d">>, templating |-> [list |-> <<OtherVariable, v>>]] :
        v \in VariableShapes }

VariableRequests ==
    [variableName : {NameEnv, <<"E", "n", "v">>},
     searchFilter : {<<>>, <<"A">>, <<"z">>},
     variables : {NilVariables, Variables(NameA :> Str(<<"x">>) @@ NameB :> Nil)}]

\* What the collaborator may answer to a variable query.
TableResponses ==
    { <<>>,
      ("A" :> DataResponse(
                 << Frame(FrameMeta(<<"u", "p">>),
                          << Field(<<"T", "e", "x", "t">>, <<Str(<<"x">>), Str(<<"A">>)>>),
                             Field(<<"i", "d">>, <<Num(1), Num(2)>>) >>) >>, FALSE)),
      ("A" :> DataResponse(
                 << Frame(Nil, << Field(<<"h">>, <<Str(<<"a">>)>>) >>) >>, TRUE))
      @@ ("B" :> DataResponse(
                 << Frame(Nil,
                          << Field(<<"n">>, <<Num(1), Num(2)>>),
                             Field(<<"V", "A", "L", "U", "E">>,
                                   <<Str(<<"p">>), Str(<<"q">>)>>) >>) >>, FALSE)),
      ("A" :> DataResponse(
                 << NilFrame, Frame(Nil, <<>>),
                    Frame(Nil, << Field(<<"h">>, <<Str(<<"a">>), Nil, Bool(TRUE)>>) >>) >>,
                 FALSE)),
      ("A" :> DataResponse(<< Frame(Nil, << Field(<<"h">>, <<Str(<<"a">>)>>) >>) >>, FALSE))
      @@ ("B" :> DataResponse(
                 << Frame(Nil,
                          << Field(<<"k">>, <<Str(<<"p">>), Str(<<"q">>)>>),
                             Field(<<"L", "a", "b", "e", "l">>,
                                   <<Str(<<"b">>), Nil>>) >>) >>, FALSE)) }

\* What the collaborator may answer to a panel query: every Meta it sends
\* names the query it executed.
FrameResponses ==
    { ("A" :> DataResponse(<< Frame(FrameMeta(<<"u", "p">>), <<>>), Frame(Nil, <<>>),
                              Frame(FrameMeta(<<"u", "p">>), <<>>) >>, FALSE))
      @@ ("B" :> DataResponse(<< Frame(FrameMeta(<<"s", "q", "l">>), <<>>) >>, TRUE)),
      ("A" :> DataResponse(<< NilFrame >>, FALSE)) }

\* err of QueryData: a failure of the execution, and the context of the
\* caller cancelled while the call was pending.
QueryDataErrors == {"ErrQueryData", "context.Canceled"}

QueryDataOutcomes(responses) ==
    { [err |-> "none", res |-> res] : res \in responses }
    \cup { [err |-> e, res |-> <<>>] : e \in QueryDataErrors }

NotReturned == [returned |-> FALSE]

(***************************************************************************)
(* GetQueryDataResponse                                                    *)
(***************************************************************************)
Requests ==
    { q \in [Reqs -> [panelId : {1, 3, 9},
                      variables : {NilVariables, Variables(<<>>),
                                   Variables(NameA :> Str(<<"x">>)),
                                   Variables(NameA :> Str(<<"y">>) @@ NameB :> Nil)},
                      intervalMs : {5, 20}, maxDataPoints : {100, 1000},
                      queryCachingTTL : {0, 60}]] :
        /\ q["r1"].variables # Variables(NameA :> Str(<<"y">>) @@ NameB :> Nil)
        /\ q["r1"].panelId # 1 => q["r1"].variables = NilVariables
        /\ q["r1"].intervalMs = 5 /\ q["r1"].maxDataPoints = 100
        /\ q["r1"].queryCachingTTL = 0
        /\ q["r2"].panelId = 1
        /\ q["r2"].variables \in {NilVariables,
                                  Variables(NameA :> Str(<<"y">>) @@ NameB :> Nil)}
        /\ q["r2"].intervalMs = 20 /\ q["r2"].maxDataPoints = 1000
        /\ q["r2"].queryCachingTTL = 60 }

Init ==
    /\ original \in Docs
    /\ heap = (Stored :> original)
    /\ req \in Requests
    /\ unsupported \in {u \in BOOLEAN : u => \E r \in Reqs : hasVariables(req[r])}
    /\ pc = [r \in Reqs |-> "start"]
    /\ dash = [r \in Reqs |-> "none"]
    /\ source = [r \in Reqs |-> <<>>]
    /\ metricReq = [r \in Reqs |-> [Queries |-> <<>>]]
    /\ sent = [r \in Reqs |-> <<>>]
    /\ reads = [r \in Reqs |-> {}]
    /\ writes = [r \in Reqs |-> {}]
    /\ ret = [r \in Reqs |-> NotReturned]
    /\ calls = [r \in Reqs |-> 0]
    /\ text = <<>> /\ variables = <<>> /\ valueStrs = <<>> /\ result = <<>>
    /\ phase = "idle"
    /\ timeIn = <<>> /\ timeOut = <<>>
    /\ vreq = <<>> /\ vpc = "idle" /\ variable = Nil /\ exec = <<>>
    /\ vret = NotReturned

\* FindEnabledPublicDashboardAndDashboardByAccessToken: the lookup answers
\* with the stored dashboard or with an error.
FindDashboard(r) ==
    /\ pc[r] = "start"
    /\ \E found \in BOOLEAN :
          IF found
          THEN pc' = [pc EXCEPT ![r] = "found"] /\ dash' = [dash EXCEPT ![r] = Stored]
          ELSE pc' = [pc EXCEPT ![r] = "ErrPublicDashboardNotFound"] /\ UNCHANGED dash
    /\ UNCHANGED <<heap, unsupported, req, source, metricReq, sent, reads, writes,
                   original, ret, calls>>
    /\ UNCHANGED <<ivars, tvars, rvars>>

\* A faulty fallback: when the copy fails, a new instance holding the
\* document as it stands is returned in place of the original one.
applyTemplateVariablesNewOnFailure(dashboard, data, m, order, flaw, r) ==
    LET dashboardJSON == Encode(data, flaw)
        copiedData == NewJson(dashboardJSON.bytes, flaw)
    IN IF ~dashboardJSON.ok \/ ~copiedData.ok
       THEN [dashboard |-> r, Data |-> data, copied |-> FALSE]
       ELSE [dashboard |-> r,
             Data |-> interpolateVariablesInDashboard(copiedData.data, m, order),
             copied |-> TRUE]

\* applyTemplateVariables on the dashboard at address dashboard, whose Data
\* reads data: the address it returns, what that address then holds, and
\* whether a copy was made.
applyTemplateVariables(dashboard, data, m, order, flaw, r) ==
    LET dashboardJSON == Encode(data, flaw)
        copiedData == NewJson(dashboardJSON.bytes, flaw)
    IN IF ~dashboardJSON.ok
       THEN [dashboard |-> dashboard, Data |-> data, copied |-> FALSE]
       ELSE IF ~copiedData.ok
       THEN [dashboard |-> dashboard, Data |-> data, copied |-> FALSE]
       ELSE [dashboard |-> NewDashboard(r, dashboard),
             Data |-> interpolateVariablesInDashboard(copiedData.data, m, order),
             copied |-> TRUE]

\* GetQueryDataResponse calls applyTemplateVariables when the request carries
\* variables.
ApplyTemplateVariables(r) ==
    /\ pc[r] = "found"
    /\ hasVariables(req[r])
    /\ \E order \in Orders(req[r].variables.m),
          flaw \in (IF unsupported THEN {"encode", "parse"} ELSE {"none"}) :
          LET out == applyTemplateVariables(dash[r], heap[dash[r]],
                                            req[r].variables.m, order, flaw, r)
          IN /\ heap' = Set(heap, out.dashboard, out.Data)
             /\ dash' = [dash EXCEPT ![r] = out.dashboard]
             /\ source' = [source EXCEPT ![r] =
                              IF out.copied THEN heap[dash[r]] ELSE @]
    /\ reads' = [reads EXCEPT ![r] = @ \cup {dash[r]}]
    /\ pc' = [pc EXCEPT ![r] = "applied"]
    /\ UNCHANGED <<unsupported, req, metricReq, sent, writes, original, ret, calls>>
    /\ UNCHANGED <<ivars, tvars, rvars>>

\* GetMetricRequest and the empty-queries test that follows it.
GetMetricRequest(r) ==
    /\ pc[r] = "applied" \/ (pc[r] = "found" /\ ~hasVariables(req[r]))
    /\ \E valid \in BOOLEAN :
          IF ~valid
          THEN /\ pc' = [pc EXCEPT ![r] = "ErrBadRequest"]
               /\ UNCHANGED <<heap, metricReq, reads, writes>>
          ELSE LET built == buildMetricRequest(heap[dash[r]], req[r].panelId, req[r])
               IN /\ heap' = [heap EXCEPT ![dash[r]] = built.data]
                  /\ reads' = [reads EXCEPT ![r] = @ \cup {dash[r]}]
                  /\ writes' = [writes EXCEPT ![r] =
                                   IF built.wrote THEN @ \cup {dash[r]} ELSE @]
                  /\ metricReq' = [metricReq EXCEPT ![r] =
                                      [Queries |-> built.Queries,
                                       panel |-> req[r].panelId,
                                       input |-> heap[dash[r]]]]
                  /\ pc' = [pc EXCEPT ![r] =
                               IF ~built.ok THEN "ErrPanelNotFound"
                               ELSE IF Len(built.Queries) = 0
                                    THEN "ErrPanelQueriesNotFound"
                                    ELSE "built"]
    /\ UNCHANGED <<unsupported, req, dash, source, sent, original, ret, calls>>
    /\ UNCHANGED <<ivars, tvars, rvars>>

\* QueryDataService.QueryData: the collaborator reads the queries through the
\* pointers of the MetricRequest and answers with a result or an error; then
\* the rest of GetQueryDataResponse: the error is returned, or the result
\* once sanitizeMetadataFromQueryData has run over it.
QueryData(r) ==
    /\ pc[r] = "built"
    /\ sent' = [sent EXCEPT ![r] = Deref(r)]
    /\ calls' = [calls EXCEPT ![r] = @ + 1]
    /\ reads' = [reads EXCEPT ![r] = @ \cup {dash[r]}]
    /\ \E out \in QueryDataOutcomes(FrameResponses) :
          IF out.err # "none"
          THEN /\ pc' = [pc EXCEPT ![r] = "ErrQueryData"]
               /\ ret' = [ret EXCEPT ![r] =
                             [returned |-> TRUE, res |-> <<>>, err |-> out.err]]
          ELSE IF sanitizePanics(out.res)
          THEN pc' = [pc EXCEPT ![r] = "panic"] /\ UNCHANGED ret
          ELSE /\ pc' = [pc EXCEPT ![r] = "done"]
               /\ ret' = [ret EXCEPT ![r] =
                             [returned |-> TRUE,
                              res |-> sanitizeMetadataFromQueryData(out.res),
                              err |-> "none"]]
    /\ UNCHANGED <<heap, unsupported, req, dash, source, metricReq, writes, original>>
    /\ UNCHANGED <<ivars, tvars, rvars>>

\* The next step of r writes the maps of the document at address a.
WillWrite(r, a) ==
    /\ pc[r] = "applied" \/ (pc[r] = "found" /\ ~hasVariables(req[r]))
    /\ dash[r] = a
    /\ buildMetricRequest(heap[a], req[r].panelId, req[r]).wrote

\* The next step of r reads or writes the maps of the document at address a.
WillAccess(r, a) ==
    /\ pc[r] \in {"found", "applied", "built"}
    /\ dash[r] = a

\* Two requests run their next steps at once on the same document and one of
\* them writes: the Go runtime may stop the process (fatal error: concurrent
\* map read and map write, concurrent map writes).
ConcurrentMapAccess ==
    /\ \E r1, r2 \in Reqs :
          r1 # r2 /\ WillWrite(r1, dash[r1]) /\ WillAccess(r2, dash[r1])
    /\ pc' = [r \in Reqs |-> IF pc[r] \in Running THEN "crashed" ELSE pc[r]]
    /\ UNCHANGED <<heap, unsupported, req, dash, source, metricReq, sent, reads,
                   writes, original, ret, calls>>
    /\ UNCHANGED <<ivars, tvars, rvars>>

(***************************************************************************)
(* GetVariableQueryResponse                                                *)
(***************************************************************************)
InitVariableQuery ==
    /\ original \in VariableDocs
    /\ heap = (Stored :> original)
    /\ unsupported = FALSE
    /\ vreq \in VariableRequests
    /\ vpc = "start"
    /\ variable = Nil
    /\ exec = <<>>
    /\ vret = NotReturned
    /\ req = [r \in Reqs |-> <<>>]
    /\ pc = [r \in Reqs |-> "idle"]
    /\ dash = [r \in Reqs |-> "none"]
    /\ source = [r \in Reqs |-> <<>>]
    /\ metricReq = [r \in Reqs |-> [Queries |-> <<>>]]
    /\ sent = [r \in Reqs |-> <<>>]
    /\ reads = [r \in Reqs |-> {}]
    /\ writes = [r \in Reqs |-> {}]
    /\ ret = [r \in Reqs |-> NotReturned]
    /\ calls = [r \in Reqs |-> 0]
    /\ text = <<>> /\ variables = <<>> /\ valueStrs = <<>> /\ result = <<>>
    /\ phase = "idle"
    /\ timeIn = <<>> /\ timeOut = <<>>

\* return nil, err
ReturnError(err) == [returned |-> TRUE, options |-> NilOptions, err |-> err]

\* The end of GetVariableQueryResponse: the search filter, and the return.
ReturnOptions(options, reqDTO) ==
    [returned |-> TRUE,
     options |-> IF reqDTO.searchFilter # <<>>
                 THEN filterVariableOptions(options, reqDTO.searchFilter)
                 ELSE options,
     err |-> "none"]

\* FindEnabledPublicDashboardAndDashboardByAccessToken, for the variable query.
VariableFindDashboard ==
    /\ vpc = "start"
    /\ \E found \in BOOLEAN :
          IF found
          THEN vpc' = "found" /\ UNCHANGED vret
          ELSE /\ vpc' = "ErrPublicDashboardNotFound"
               /\ vret' = ReturnError("ErrPublicDashboardNotFound")
    /\ UNCHANGED <<vreq, variable, exec>>
    /\ UNCHANGED <<ivars, tvars, qvars>>

\* The call of findVariableInDashboard and the return on its error.
FindVariable ==
    /\ vpc = "found"
    /\ LET out == findVariableInDashboard(heap[Stored], vreq.variableName)
       IN IF out.err # "none"
          THEN vpc' = out.err /\ vret' = ReturnError(out.err) /\ UNCHANGED variable
          ELSE vpc' = "resolved" /\ variable' = out.variable /\ UNCHANGED vret
    /\ UNCHANGED <<vreq, exec>>
    /\ UNCHANGED <<ivars, tvars, qvars>>

\* A query branch that does not return early on an empty datasource uid.
CallsQueryDataWithoutDatasource(var) == IsQueryVariable(var)

\* getQueryVariableOptions reaches the call of QueryData.
CallsQueryData(var) == IsQueryVariable(var) /\ variableDatasourceUid(var) # <<>>

\* getVariableOptions for a variable that needs no query execution, and the
\* rest of GetVariableQueryResponse.
GetVariableOptions ==
    /\ vpc = "resolved"
    /\ ~CallsQueryData(variable)
    /\ LET options == IF IsQueryVariable(variable) THEN EmptyOptions
                      ELSE staticBranch(variable)
       IN vret' = ReturnOptions(withCurrentValueFallback(variable, options), vreq)
    /\ vpc' = "done"
    /\ UNCHANGED <<vreq, variable, exec>>
    /\ UNCHANGED <<ivars, tvars, qvars>>

\* getQueryVariableOptions up to the call of QueryData, which is pending then.
VariableQueryData ==
    /\ vpc = "resolved"
    /\ CallsQueryData(variable)
    /\ \E order \in Orders(vreq.variables.m) :
          exec' = Append(exec, [metricReq |-> variableMetricRequest(variable, vreq, order),
                                err |-> "pending", res |-> <<>>])
    /\ vpc' = "pending"
    /\ UNCHANGED <<vreq, variable, vret>>
    /\ UNCHANGED <<ivars, tvars, qvars>>

\* A query branch that hands the error of QueryData on to its caller.
optionsOfAnswerOrError(out, order) ==
    IF out.err # "none" THEN [options |-> EmptyOptions, err |-> out.err]
    ELSE [options |-> extractOptionsFromQueryResponse(out.res, order), err |-> "none"]

\* What getQueryVariableOptions returns once QueryData has answered.
optionsOfAnswer(out, order) ==
    IF out.err # "none" THEN [options |-> EmptyOptions, err |-> "none"]
    ELSE [options |-> extractOptionsFromQueryResponse(out.res, order), err |-> "none"]

\* QueryData answers: getQueryVariableOptions extracts the options or gives
\* up, and getVariableOptions and GetVariableQueryResponse run to their end.
VariableQueryAnswer ==
    /\ vpc = "pending"
    /\ \E out \in QueryDataOutcomes(TableResponses) :
          /\ exec' = [exec EXCEPT ![Len(exec)] =
                         [@ EXCEPT !.err = out.err, !.res = out.res]]
          /\ \E order \in Orders(out.res) :
                LET got == optionsOfAnswer(out, order)
                IN IF got.err # "none"
                   THEN vpc' = got.err /\ vret' = ReturnError(got.err)
                   ELSE /\ vpc' = "done"
                        /\ vret' = ReturnOptions(
                                       withCurrentValueFallback(variable, got.options),
                                       vreq)
    /\ UNCHANGED <<vreq, variable>>
    /\ UNCHANGED <<ivars, tvars, qvars>>

NextVariableQuery ==
    \/ VariableFindDashboard
    \/ FindVariable
    \/ GetVariableOptions
    \/ VariableQueryData
    \/ VariableQueryAnswer

SpecVariableQuery == InitVariableQuery /\ [][NextVariableQuery]_vars

(***************************************************************************)
(* Both operations: in every behaviour either the two panel queries or the *)
(* variable query are served.                                              *)
(***************************************************************************)
Next ==
    \/ \E r \in Reqs : FindDashboard(r)
    \/ \E r \in Reqs : ApplyTemplateVariables(r)
    \/ \E r \in Reqs : GetMetricRequest(r)
    \/ \E r \in Reqs : QueryData(r)
    \/ ConcurrentMapAccess
    \/ VariableFindDashboard
    \/ FindVariable
    \/ GetVariableOptions
    \/ VariableQueryData
    \/ VariableQueryAnswer

\* One of the two operations is invoked.
InitOperation == Init \/ InitVariableQuery

Spec == InitOperation /\ [][Next]_vars

(***************************************************************************)
(* Claims about interpolateVariables and variableValueToString             *)
(***************************************************************************)
Contains(s, p) == \E i \in 1..(Len(s) + 1) : HasPrefixAt(s, i, p)

\* The placeholders written in t: "$" followed by a whole identifier, or
\* "${", an identifier and "}".
PlaceholdersOf(t) ==
    { [name |-> SubSeq(t, i + 1, i + NameLen(SubSeq(t, i + 1, Len(t)))),
       str |-> SubSeq(t, i, i + NameLen(SubSeq(t, i + 1, Len(t))))] :
          i \in {j \in 1..Len(t) : t[j] = "$" /\ NameLen(SubSeq(t, j + 1, Len(t))) > 0} }
    \cup
    { [name |-> SubSeq(t, i + 2, i + 1 + NameLen(SubSeq(t, i + 2, Len(t)))),
       str |-> SubSeq(t, i, i + 2 + NameLen(SubSeq(t, i + 2, Len(t))))] :
          i \in {j \in 1..Len(t) :
                    /\ t[j] = "$"
                    /\ j + 1 <= Len(t) /\ t[j + 1] = "{"
                    /\ NameLen(SubSeq(t, j + 2, Len(t))) > 0
                    /\ j + 2 + NameLen(SubSeq(t, j + 2, Len(t))) <= Len(t)
                    /\ t[j + 2 + NameLen(SubSeq(t, j + 2, Len(t)))] = "}"} }

HasNonNull(m, n) == n \in DOMAIN m /\ m[n].t # "nil"

\* C5: a placeholder whose variable is absent from the map or mapped to null
\* appears literally in the output of interpolateVariables, and with an empty
\* map the output equals the input.
C5_AbsentPlaceholderUntouched ==
    phase = "out" =>
        /\ \A p \in PlaceholdersOf(text) :
              ~HasNonNull(variables, p.name) => Contains(result, p.str)
        /\ DOMAIN variables = {} => result = text

\* Every occurrence of ${n}, and of $n followed by a non-identifier boundary,
\* replaced by v, character for character, in one scan of t.
RECURSIVE SubstFrom(_, _, _, _)
SubstFrom(t, i, n, v) ==
    IF i > Len(t) THEN <<>>
    ELSE IF HasPrefixAt(t, i, <<"$", "{">> \o n \o <<"}">>)
         THEN v \o SubstFrom(t, i + Len(n) + 3, n, v)
    ELSE IF HasPrefixAt(t, i, <<"$">> \o n) /\ ~IsWordAt(t, i + Len(n) + 1)
         THEN v \o SubstFrom(t, i + Len(n) + 1, n, v)
    ELSE <<t[i]>> \o SubstFrom(t, i + 1, n, v)

\* C6: for a variable with a non-null value, interpolateVariables replaces
\* every ${name} and every $name followed by a non-identifier boundary by
\* exactly the value's string form, and leaves $name alone when it is the
\* prefix of a longer identifier.
C6_ExactSubstitution ==
    phase = "out" =>
        \A n \in {NameA, NameB} :
            (DOMAIN variables = {n} /\ variables[n].t # "nil") =>
                result = SubstFrom(text, 1, n, valueStrs[n])

RECURSIVE AllElements(_)
AllElements(l) ==
    IF l = <<>> THEN <<>> ELSE <<Sprintf(Head(l))>> \o AllElements(Tail(l))

\* C7: a multi-value variable renders as all of its values, in order, joined
\* by ",", whatever the type of each element, and a scalar renders as its
\* natural string form.
C7_ValueStringForm ==
    phase = "out" =>
        \A n \in DOMAIN valueStrs :
            valueStrs[n] = IF variables[n].t = "list"
                           THEN Join(AllElements(variables[n].v), <<",">>)
                           ELSE Sprintf(variables[n])

(***************************************************************************)
(* Claims about GetQueryDataResponse                                       *)
(***************************************************************************)
\* Positions a request reaches after the call of applyTemplateVariables.
AfterApply ==
    {"applied", "built", "done", "ErrBadRequest", "ErrPanelNotFound",
     "ErrPanelQueriesNotFound", "ErrQueryData", "panic"}

\* Positions a request reaches after buildMetricRequest found its panel.
AfterBuild == {"built", "done", "ErrPanelQueriesNotFound", "ErrQueryData", "panic"}

\* C1: the dashboard document the lookup returned reads the same at every
\* point of every panel query request as when it was first returned, whether
\* the request's variables are nil, empty or non-empty.
C1_StoredDashboardUnchanged == heap[Stored] = original

\* C2: a call of applyTemplateVariables leaves the document at the address of
\* its input as it was, and when the copy succeeds the dashboard it returns
\* lives at another address.
C2_ApplyNeverMutatesInput ==
    [][\A r \in Reqs :
          (pc[r] = "found" /\ pc'[r] = "applied") =>
              /\ heap'[dash[r]] = heap[dash[r]]
              /\ ~unsupported => dash'[r] # dash[r]]_vars

\* C2: a request has applied its variables to a copy that differs from the
\* document it copied.
C2_Witness ==
    \E r \in Reqs :
        /\ pc[r] = "applied" /\ dash[r] # Stored
        /\ heap[dash[r]] # source[r] /\ heap[Stored] = source[r]

\* The queries request r sends when no other request runs.
Alone(r) ==
    LET m == req[r].variables.m
        data == IF hasVariables(req[r]) /\ ~unsupported
                THEN interpolateVariablesInDashboard(
                         original, m, CHOOSE order \in Orders(m) : TRUE)
                ELSE original
        built == buildMetricRequest(data, req[r].panelId, req[r])
    IN [i \in 1..Len(built.Queries) |-> QueryAt(built.data, built.Queries[i])]

\* C3: two requests running against the same stored dashboard never write a
\* document the other reads or writes, and each sends the queries it would
\* send if run alone.
C3_ConcurrentRequestsIndependent ==
    /\ \A r1, r2 \in Reqs :
          r1 # r2 => writes[r1] \cap (reads[r2] \cup writes[r2]) = {}
    /\ \A r \in Reqs : pc[r] \in {"done", "ErrQueryData"} => sent[r] = Alone(r)

\* The per-query fields C4 lists.
AllowedQueryFields ==
    {"expr", "query", "rawQuery", "select", "from", "where", "group", "alias",
     "legendFormat", "format", "interval", "step", "measurement", "metric",
     "table", "database"}

\* j without the fields of names at the place `key` of j names, when there.
Without(j, key, names) ==
    IF Has(j, key) THEN Set(j, key, [k \in DOMAIN j[key] \ names |-> j[key][k]])
    ELSE j

StripQuery(q) ==
    Without([k \in DOMAIN q \ AllowedQueryFields |-> q[k]], "datasource", {"uid"})

RECURSIVE StripPanel(_)
StripPanel(p) ==
    LET bare == Without([k \in DOMAIN p \ {"title", "description"} |-> p[k]],
                        "datasource", {"uid"})
    IN [k \in DOMAIN bare |->
           IF k = "targets"
           THEN [i \in 1..Len(bare[k]) |-> StripQuery(bare[k][i])]
           ELSE IF k = "panels"
           THEN [i \in 1..Len(bare[k]) |-> StripPanel(bare[k][i])]
           ELSE bare[k]]

StripElement(e, datasourceFields) ==
    LET spec == Without([k \in DOMAIN e.spec \ {"title", "description"} |-> e.spec[k]],
                        "datasource", datasourceFields)
    IN Set(e, "spec",
           IF Has(spec, "data")
           THEN Set(spec, "data",
                    Set(spec.data, "spec",
                        Set(spec.data.spec, "queries",
                            [i \in 1..Len(spec.data.spec.queries) |->
                                StripQuery(spec.data.spec.queries[i])])))
           ELSE spec)

\* The document without the fields interpolation may rewrite.
StripDocument(d, datasourceFields) ==
    [k \in DOMAIN d \ {"title"} |->
        IF k = "panels" THEN [i \in 1..Len(d[k]) |-> StripPanel(d[k][i])]
        ELSE IF k = "elements"
        THEN [id \in DOMAIN d[k] |-> StripElement(d[k][id], datasourceFields)]
        ELSE d[k]]

\* C4: interpolation changes only the document title, each panel's title,
\* description and datasource.uid, and per query object the listed fields and
\* datasource.uid; every other field of the result equals that of the input.
C4_OnlyListedFieldsChange ==
    \A r \in Reqs :
        (pc[r] = "applied" /\ dash[r] # Stored) =>
            StripDocument(heap[dash[r]], {"uid"}) = StripDocument(source[r], {"uid"})

\* C4: as above, with datasource.name of a v2 element among the fields that
\* may change.
C4_OnlyListedFieldsAndElementDatasourceNameChange ==
    \A r \in Reqs :
        (pc[r] = "applied" /\ dash[r] # Stored) =>
            StripDocument(heap[dash[r]], {"uid", "name"})
                = StripDocument(source[r], {"uid", "name"})

\* C4: a v2 document has been interpolated and datasource.name of its element
\* differs from that of the input.
C4_Witness ==
    \E r \in Reqs :
        /\ pc[r] = "applied" /\ dash[r] # Stored
        /\ heap[dash[r]] # source[r]
        /\ Has(source[r], "elements")
        /\ source[r].elements["panel-1"].spec.datasource.name
              # heap[dash[r]].elements["panel-1"].spec.datasource.name

\* C8: when the document cannot be serialized or re-parsed, the request goes
\* on with the original dashboard instance: no copy is made, no error is
\* raised by the copy, and the metric request is built from the original.
C8_CopyFailureFallsBackToOriginal ==
    \A r \in Reqs :
        (unsupported /\ hasVariables(req[r]) /\ pc[r] \in AfterApply) =>
            /\ dash[r] = Stored
            /\ source[r] = <<>>
            /\ DOMAIN heap = {Stored}

\* C8: a request with variables whose copy failed has built its metric
\* request and sent it.
C8_Witness ==
    \E r \in Reqs :
        /\ unsupported /\ hasVariables(req[r]) /\ pc[r] = "done"
        /\ dash[r] = Stored /\ Len(sent[r]) > 0

\* The query has the built-in expression datasource (v1: datasource.uid, or a
\* legacy string datasource; v2: datasource.name of spec.query).
IsExpressionTarget(q) ==
    /\ Has(q, "datasource")
    /\ \/ Has(q.datasource, "uid") /\ q.datasource.uid \in ExprDatasourceUIDs
       \/ Has(q.datasource, "str") /\ q.datasource.str \in ExprDatasourceUIDs

IsExpressionQueryV2(entry) ==
    /\ Has(entry.spec, "query") /\ Has(entry.spec.query, "datasource")
    /\ Has(entry.spec.query.datasource, "name")
    /\ entry.spec.query.datasource.name \in ExprDatasourceUIDs

Range(f) == {f[i] : i \in DOMAIN f}

\* Places of the panels of a v1 document the builder gives an entry to.
PanelPaths(data) ==
    {<<i>> : i \in {k \in 1..Len(data.panels) : ~isCollapsedRow(data.panels[k])}}
    \cup {<<i, j>> : i \in {k \in 1..Len(data.panels) : isCollapsedRow(data.panels[k])},
                     j \in 1..2}

PathsOf(data, panelId) ==
    {at \in PanelPaths(data) :
        /\ Len(at) = 2 => at[2] <= Len(data.panels[at[1]].panels)
        /\ PanelAt(data.panels, at).id = panelId}

\* C9 (v1): a target of the requested panel is absent from the metric request
\* exactly when its hide flag is true and no target of the panel has the
\* expression datasource.
C9_DroppedIffHiddenWithoutExpressionV1 ==
    \A r \in Reqs :
        (pc[r] \in AfterBuild /\ ~Has(metricReq[r].input, "elements")) =>
            \A at \in PathsOf(metricReq[r].input, req[r].panelId) :
                LET targets == MustArray(PanelAt(metricReq[r].input.panels, at),
                                         "targets")
                IN \A j \in 1..Len(targets) :
                      ([panel |-> at, target |-> j] \notin Range(metricReq[r].Queries))
                      <=> (/\ MustBool(targets[j], "hide")
                           /\ \A k \in 1..Len(targets) : ~IsExpressionTarget(targets[k]))

\* C9 (v2): an entry of the requested element that carries a query payload is
\* absent from the metric request exactly when its hidden flag is true and no
\* entry of the element has the expression datasource.
C9_DroppedIffHiddenWithoutExpressionV2 ==
    \A r \in Reqs :
        (pc[r] \in AfterBuild /\ Has(metricReq[r].input, "elements")) =>
            \A key \in DOMAIN metricReq[r].input.elements :
                LET spec == metricReq[r].input.elements[key].spec
                    entries == IF Has(spec, "data") THEN spec.data.spec.queries
                               ELSE <<>>
                IN spec.id = req[r].panelId =>
                     \A j \in 1..Len(entries) :
                        (Has(entries[j].spec, "query")
                            /\ Has(entries[j].spec.query, "spec")) =>
                          (([element |-> key, query |-> j]
                                \notin Range(metricReq[r].Queries))
                           <=> (/\ MustBool(entries[j].spec, "hidden")
                                /\ \A k \in 1..Len(entries) :
                                      ~IsExpressionQueryV2(entries[k])))

C10_NoExemplarInMetricRequest ==
    \A r \in Reqs :
        pc[r] \in {"built", "done", "ErrQueryData"} =>
            \A i \in 1..Len(metricReq[r].Queries) :
                ~Has(QueryAt(heap[dash[r]], metricReq[r].Queries[i]), "exemplar")

\* C10: a metric request holds a query that had an exemplar field in the
\* document the request was built from.
C10_Witness ==
    \E r \in Reqs :
        /\ pc[r] = "built"
        /\ \E i \in 1..Len(metricReq[r].Queries) :
              /\ Has(QueryAt(metricReq[r].input, metricReq[r].Queries[i]), "exemplar")
              /\ ~Has(Deref(r)[i], "exemplar")

\* The uid of a panel's datasource: datasource.uid, else a legacy string
\* datasource, else empty.
PanelDatasourceUid(panel) ==
    IF ~Has(panel, "datasource") THEN <<>>
    ELSE IF Has(panel.datasource, "uid") /\ panel.datasource.uid # <<>>
    THEN panel.datasource.uid
    ELSE IF Has(panel.datasource, "str") THEN panel.datasource.str
    ELSE <<>>

DocumentTime(d) ==
    LET holder == IF Has(d, "elements") THEN Get(d, "timeSettings") ELSE Get(d, "time")
        zone == IF Has(d, "elements") THEN MustString(holder, "timezone")
                ELSE MustString(d, "timezone")
    IN [from |-> MustString(holder, "from"), to |-> MustString(holder, "to"),
        timezone |-> zone]

\* The panels of a v1 list the metric request builder resolves: those of the
\* list that are not collapsed rows, and those inside its collapsed rows.
RECURSIVE ResolvablePanels(_)
ResolvablePanels(panels) ==
    UNION { IF isCollapsedRow(panels[i])
            THEN ResolvablePanels(MustArray(panels[i], "panels"))
            ELSE {panels[i]} : i \in 1..Len(panels) }

\* The timeFrom overrides declared for the panel id (empty when undeclared):
\* one per panel or element of that id.
DeclaredTimeFrom(d, panelID) ==
    LET declared ==
          IF Has(d, "elements")
          THEN { MustString(Get(Get(Get(d.elements[key].spec, "data"), "spec"),
                                "queryOptions"), "timeFrom") :
                   key \in {k \in DOMAIN d.elements : d.elements[k].spec.id = panelID} }
          ELSE { MustString(panel, "timeFrom") :
                   panel \in {q \in ResolvablePanels(d.panels) : q.id = panelID} }
    IN IF declared = {} THEN {<<>>} ELSE declared

\* C13: when caller override is allowed and the request supplies both from and
\* to, these are used; otherwise to is the document's to and from is the
\* panel's timeFrom if non-empty, else the document's from.
C13_TimeWindowPrecedence ==
    phase = "time-out" =>
        LET range == timeIn.reqDTO.timeRange
            document == DocumentTime(timeIn.d)
        IN IF timeIn.timeSelectionEnabled /\ range.from # <<>> /\ range.to # <<>>
           THEN timeOut.from = range.from /\ timeOut.to = range.to
           ELSE /\ timeOut.to = document.to
                /\ \E timeFrom \in DeclaredTimeFrom(timeIn.d, timeIn.panelID) :
                      timeOut.from = IF timeFrom # <<>> THEN timeFrom
                                     ELSE document.from

\* C14: with time selection disabled the resolved window is the same for every
\* timeRange of the request, and its to and timezone are the document's (UTC
\* when the document's zone is blank or invalid).
C14_WindowIgnoresRequestWhenDisabled ==
    (phase = "time-out" /\ ~timeIn.timeSelectionEnabled) =>
        /\ \A range \in TimeRanges :
              /\ resolveTimeWindow([timeIn EXCEPT !.reqDTO.timeRange = range])
                    = resolveTimeWindow(timeIn)
              /\ timeOut \in
                    resolveTimeWindow([timeIn EXCEPT !.reqDTO.timeRange = range])
        /\ timeOut.to = DocumentTime(timeIn.d).to
        /\ timeOut.from \in
              {DocumentTime(timeIn.d).from}
              \cup DeclaredTimeFrom(timeIn.d, timeIn.panelID)
        /\ timeOut.timezone =
              (IF DocumentTime(timeIn.d).timezone \in KnownZones \ {<<>>}
               THEN DocumentTime(timeIn.d).timezone ELSE <<"UTC">>)

\* C14: time selection is disabled, the request supplies from, to and a valid
\* timezone, and the window resolved is the document's.
C14_Witness ==
    /\ phase = "time-out" /\ ~timeIn.timeSelectionEnabled
    /\ timeIn.reqDTO.timeRange =
          [from |-> Now1h, to |-> <<"now">>, timezone |-> <<"Europe/Helsinki">>]
    /\ timeOut.from = Now6h /\ timeOut.to = <<"now">>
    /\ timeOut.timezone = <<"UTC">>

(***************************************************************************)
(* Claims about lookups, query execution and variable options              *)
(***************************************************************************)
\* The panel map the builder extracts from a document.
ExtractedPanels(data) ==
    IF Has(data, "elements") THEN groupQueriesByPanelIdV2(data).result
    ELSE groupQueriesByPanelId(data).result

\* Names of the entries of templating.list; none when the document has no
\* templating or no templating.list.
DeclaredVariableNames(data) ==
    IF Has(data, "templating") /\ Has(data.templating, "list")
    THEN {MustString(data.templating.list[i], "name") :
             i \in 1..Len(data.templating.list)}
    ELSE {}

\* Positions of the variable query past the lookup of the variable.
AfterFindVariable ==
    {"resolved", "pending", "done", "ErrVariableNotFound", "ErrInternalServerError"}

\* C12: a lookup failure is returned as an error and QueryData is not called.
\* A panel query whose panel id is no key of the extracted panel map ends
\* with ErrPanelNotFound, and one whose panel has no query left ends with
\* ErrPanelQueriesNotFound; a variable query whose name equals no name of
\* templating.list, or whose document has no templating or no
\* templating.list, returns (nil, ErrVariableNotFound), not an option list.
C12_LookupFailuresPropagate ==
    /\ \A r \in Reqs :
          pc[r] \in AfterBuild \cup {"ErrPanelNotFound"} =>
             LET panels == ExtractedPanels(metricReq[r].input)
                 missing == req[r].panelId \notin DOMAIN panels
                 empty == ~missing /\ Len(panels[req[r].panelId]) = 0
             IN /\ missing <=> pc[r] = "ErrPanelNotFound"
                /\ empty <=> pc[r] = "ErrPanelQueriesNotFound"
                /\ (missing \/ empty) => sent[r] = <<>> /\ ~ret[r].returned
    /\ vpc \in AfterFindVariable =>
          LET missing == vreq.variableName \notin DeclaredVariableNames(heap[Stored])
          IN /\ missing <=> vpc = "ErrVariableNotFound"
             /\ missing => vret = ReturnError("ErrVariableNotFound") /\ exec = <<>>

\* C12: a variable query ended with ErrVariableNotFound on a document whose
\* templating.list holds variables, none of the name asked for.
C12_Witness ==
    /\ vpc = "ErrVariableNotFound"
    /\ DeclaredVariableNames(heap[Stored]) # {}
    /\ vret.returned /\ vret.err = "ErrVariableNotFound"

\* A decimal number, with or without a sign.
IsEpochMillis(s) ==
    LET digits == IF s # <<>> /\ Head(s) = "-" THEN Tail(s) ELSE s
    IN digits # <<>> /\ \A i \in 1..Len(digits) : digits[i] \in Range(Digits)

\* C15: From and To of every MetricRequest handed to QueryData are epoch
\* milliseconds in decimal: those buildMetricRequest takes from the time
\* settings on the panel query path, and those of the request the variable
\* query path sends.
C15_AbsoluteTimeRangeAtExecution ==
    /\ phase = "time-out" =>
          IsEpochMillis(timeOut.ts.From) /\ IsEpochMillis(timeOut.ts.To)
    /\ \A i \in 1..Len(exec) :
          /\ IsEpochMillis(exec[i].metricReq.From)
          /\ IsEpochMillis(exec[i].metricReq.To)

\* C16: a variable query that returns without error returns a sequence, empty
\* when no option qualifies, and never a nil one.
C16_NeverNilOptions ==
    (vpc = "done" /\ vret.err = "none") => ~vret.options.nil

\* The options the current value of a variable stands for: one for a
\* non-empty string, labelled by current.text when that is a non-empty
\* string; one for each non-empty string of a list, labelled by the string at
\* the same place of current.text.
CurrentValueOptions(var) ==
    LET value == var.Current.Value
        label == var.Current.Text
    IN CASE value.t = "string" /\ value.v # <<>> ->
               << [Text |-> IF label.t = "string" /\ label.v # <<>> THEN label.v
                            ELSE value.v,
                   Value |-> value.v] >>
         [] value.t = "list" ->
               LET kept == SelectSeq([i \in 1..Len(value.v) |-> i],
                               LAMBDA i : value.v[i].t = "string" /\ value.v[i].v # <<>>)
               IN [k \in 1..Len(kept) |->
                      [Text |-> IF /\ label.t = "list" /\ kept[k] <= Len(label.v)
                                   /\ label.v[kept[k]].t = "string"
                                THEN label.v[kept[k]].v ELSE value.v[kept[k]].v,
                       Value |-> value.v[kept[k]].v]]
         [] OTHER -> <<>>

\* The options whose text or value contains the filter, letter case aside;
\* all of them for the empty filter.
Matching(items, filter) ==
    SelectSeq(items, LAMBDA o : \/ Contains(ToLower(o.Text), ToLower(filter))
                                \/ Contains(ToLower(o.Value), ToLower(filter)))

\* The execution of the variable's query failed.
QueryFailed == Len(exec) = 1 /\ exec[1].err = "ErrQueryData"

\* C17 as stated: when QueryData fails for a query variable, the variable
\* query returns no error and an empty option list.
C17_QueryFailureGivesEmptyList ==
    (QueryFailed /\ vpc # "pending") =>
        /\ vpc = "done" /\ vret.err = "none"
        /\ vret.options.items = <<>>

\* C17, amended: when QueryData fails for a query variable, the variable
\* query returns no error, and its options are those of the variable's
\* current value that match the search filter: none when the variable has no
\* current value.
C17_QueryFailureGivesCurrentValue ==
    (QueryFailed /\ vpc # "pending") =>
        /\ vpc = "done" /\ vret.err = "none"
        /\ vret.options.items =
              Matching(CurrentValueOptions(variable), vreq.searchFilter)
        /\ variable.Current.Value.t = "nil" => vret.options.items = <<>>

\* C17: QueryData failed for a query variable with a current value, and the
\* variable query returned that value as its only option.
C17_Witness ==
    /\ QueryFailed /\ vpc = "done"
    /\ variable.Current.Value.t = "string"
    /\ Len(vret.options.items) = 1

\* C18: when the context is cancelled while QueryData is pending, the panel
\* query returns an empty result and no error, and the variable query returns
\* no error and no option of the datasource (what its current value gives, as
\* after any execution that yields nothing).
C18_CancellationGivesEmptyResult ==
    /\ \A r \in Reqs :
          ret[r].returned => ret[r].err # "context.Canceled"
    /\ (Len(exec) = 1 /\ exec[1].err = "context.Canceled") =>
          /\ vpc = "done" /\ vret.err = "none"
          /\ vret.options.items =
                Matching(CurrentValueOptions(variable), vreq.searchFilter)

\* The frames of a result: the frames of all its responses.
FramesOf(res) == UNION {Range(res[k].Frames) : k \in DOMAIN res}

\* C19: in a result a panel query returned, every frame that has metadata has
\* an empty ExecutedQueryString in it, whether or not its response reports an
\* error; and a panel query that ended without error returned such a result.
C19_NoExecutedQueryStringReturned ==
    \A r \in Reqs :
        /\ pc[r] = "done" => ret[r].returned /\ ret[r].err = "none"
        /\ (ret[r].returned /\ ret[r].err = "none") =>
              \A frame \in FramesOf(ret[r].res) :
                  /\ frame.t = "frame"
                  /\ frame.Meta.t # "nil" => frame.Meta.ExecutedQueryString = <<>>

\* C19: a panel query returned a result of two responses, one of them with
\* an error, whose frames with metadata were all sent with the query text.
C19_Witness ==
    \E r \in Reqs :
        /\ pc[r] = "done" /\ ret[r].returned
        /\ Cardinality(DOMAIN ret[r].res) = 2
        /\ \E k \in DOMAIN ret[r].res : ret[r].res[k].Error
        /\ \E k \in DOMAIN ret[r].res :
              /\ Len(ret[r].res[k].Frames) = 3
              /\ ret[r].res[k].Frames[3].Meta.t = "meta"
              /\ ret[r].res[k].Frames[3].Meta.ExecutedQueryString = <<>>
              /\ ret[r].res[k].Frames[3].Meta.Channel # <<>>

\* The pieces of s between its commas, in order.
CommaTokens(s) ==
    LET commas == SelectSeq([i \in 1..Len(s) |-> i], LAMBDA i : s[i] = ",")
        bounds == <<0>> \o commas \o <<Len(s) + 1>>
    IN [k \in 1..(Len(bounds) - 1) |-> SubSeq(s, bounds[k] + 1, bounds[k + 1] - 1)]

\* s without the blanks at its ends.
Trimmed(s) ==
    LET solid == {i \in 1..Len(s) : s[i] # " "}
    IN IF solid = {} THEN <<>>
       ELSE SubSeq(s, CHOOSE i \in solid : \A j \in solid : i <= j,
                      CHOOSE i \in solid : \A j \in solid : j <= i)

\* The option a token stands for: "label:value", split at its first colon,
\* or a bare token that is both text and value.
TokenOption(token) ==
    LET colons == {i \in 1..Len(token) : token[i] = ":"}
        c == CHOOSE i \in colons : \A j \in colons : i <= j
    IN IF colons = {} THEN [Text |-> token, Value |-> token]
       ELSE [Text |-> SubSeq(token, 1, c - 1),
             Value |-> SubSeq(token, c + 1, Len(token))]

\* A custom variable with a string query was resolved, with no search filter.
CustomResolved ==
    /\ vpc = "done"
    /\ variable.Type = <<"c", "u", "s", "t", "o", "m">>
    /\ variable.Query.t = "string"
    /\ vreq.searchFilter = <<>>

\* C20 as stated: the options of a custom variable with a string query are
\* its comma-separated tokens in order, "label:value" giving {label, value}
\* and a bare token {token, token}.
C20_CustomOptionsAreTheTokens ==
    CustomResolved =>
        LET tokens == CommaTokens(variable.Query.v)
        IN vret.options.items = [k \in 1..Len(tokens) |-> TokenOption(tokens[k])]

\* C20, amended: the tokens are trimmed of surrounding blanks and the ones
\* that are empty then are skipped; a token with a colon is split at its first
\* colon into text and value, each trimmed; a bare token is both text and
\* value.  When no token is left the options are those of the current value.
C20_CustomOptionsAreTheTrimmedTokens ==
    CustomResolved =>
        LET tokens == CommaTokens(variable.Query.v)
            kept == SelectSeq([k \in 1..Len(tokens) |-> Trimmed(tokens[k])],
                              LAMBDA t : t # <<>>)
            options == [k \in 1..Len(kept) |->
                           [Text |-> Trimmed(TokenOption(kept[k]).Text),
                            Value |-> Trimmed(TokenOption(kept[k]).Value)]]
        IN vret.options.items =
              IF options # <<>> THEN options ELSE CurrentValueOptions(variable)

\* C20: a custom variable whose query holds blanks, an empty token and a
\* "label:value" token was resolved to two options.
C20_Witness ==
    /\ CustomResolved
    /\ Len(CommaTokens(variable.Query.v)) = 3
    /\ vret.options.items = << [Text |-> <<"a">>, Value |-> <<"1">>],
                                [Text |-> <<"B">>, Value |-> <<"B">>] >>

(***************************************************************************)
(* Claims about the option resolver's branches and its result              *)
(***************************************************************************)
\* The string an option's text or value of the document stands for: a string
\* itself, a list its first element as printed, anything else the empty
\* string.
OptionString(x) ==
    CASE x.t = "string" -> x.v
      [] x.t = "list" /\ Len(x.v) > 0 -> Sprintf(x.v[1])
      [] OTHER -> <<>>

\* The predeclared options of a variable as they stand in the document.
DeclaredOptions(var) ==
    [k \in 1..Len(var.Options) |->
        [Text |-> OptionString(var.Options[k].Text),
         Value |-> OptionString(var.Options[k].Value)]]

\* The predeclared options in normal form: those with neither text nor value
\* left out, a missing text taken from the value and a missing value from the
\* text.
NormalOptions(var) ==
    LET declared == DeclaredOptions(var)
        kept == SelectSeq(declared, LAMBDA o : o.Text # <<>> \/ o.Value # <<>>)
    IN [k \in 1..Len(kept) |->
           [Text |-> IF kept[k].Text = <<>> THEN kept[k].Value ELSE kept[k].Text,
            Value |-> IF kept[k].Value = <<>> THEN kept[k].Text ELSE kept[k].Value]]

BuiltInIntervals ==
    << <<"1", "m">>, <<"5", "m">>, <<"1", "0", "m">>, <<"3", "0", "m">>,
       <<"1", "h">>, <<"6", "h">>, <<"1", "2", "h">>,
       <<"1", "d">>, <<"7", "d">>, <<"1", "4", "d">>, <<"3", "0", "d">> >>

\* An interval variable was resolved, with no search filter.
IntervalResolved ==
    /\ vpc = "done"
    /\ variable.Type = <<"i", "n", "t", "e", "r", "v", "a", "l">>
    /\ vreq.searchFilter = <<>>

\* C21 as stated: the options of an interval variable are its predeclared
\* options whenever it has any, and else the 11 built-in intervals in order,
\* each with its text equal to its value.
C21_IntervalOptionsAsDeclared ==
    IntervalResolved =>
        vret.options.items =
            IF Len(variable.Options) > 0 THEN DeclaredOptions(variable)
            ELSE [k \in 1..11 |-> [Text |-> BuiltInIntervals[k],
                                   Value |-> BuiltInIntervals[k]]]

\* C21, amended: the options of an interval variable with predeclared options
\* are those options in normal form, or the options of its current value when
\* none of them has a text or a value; without predeclared options they are
\* the 11 built-in intervals in order, each with its text equal to its value.
C21_IntervalOptionsNormalOrBuiltIn ==
    IntervalResolved =>
        vret.options.items =
            IF Len(variable.Options) = 0
            THEN [k \in 1..11 |-> [Text |-> BuiltInIntervals[k],
                                   Value |-> BuiltInIntervals[k]]]
            ELSE IF NormalOptions(variable) # <<>> THEN NormalOptions(variable)
            ELSE CurrentValueOptions(variable)

\* C21: an interval variable without predeclared options but with a current
\* value was resolved to the 11 built-in intervals.
C21_Witness ==
    /\ IntervalResolved
    /\ variable.Options = <<>>
    /\ variable.Current.Value.t = "string"
    /\ Len(vret.options.items) = 11
    /\ vret.options.items[3] = [Text |-> <<"1", "0", "m">>, Value |-> <<"1", "0", "m">>]

\* The option list the switch on the variable's type computes, the responses
\* of an executed query ranged over in the given order: nothing for a query
\* variable whose query was not executed or failed.
Dispatched(order) ==
    IF IsQueryVariable(variable)
    THEN IF Len(exec) = 1 /\ exec[1].err = "none"
         THEN extractOptionsFromQueryResponse(exec[1].res, order).items
         ELSE <<>>
    ELSE staticBranch(variable).items

\* C22: the options a variable query returns are the dispatched list, or the
\* options of the current value when that list is empty, and of these, when
\* the search filter is not empty, the ones whose text or value contains the
\* filter, letter case aside, in their order.
C22_FilterAfterFallbackAfterDispatch ==
    vpc = "done" =>
        /\ vret.err = "none"
        /\ \E order \in Orders(IF Len(exec) = 1 THEN exec[1].res ELSE <<>>) :
              LET computed == Dispatched(order)
                  withFallback == IF computed = <<>> THEN CurrentValueOptions(variable)
                                  ELSE computed
              IN vret.options.items =
                    IF vreq.searchFilter = <<>> THEN withFallback
                    ELSE SelectSeq(withFallback,
                             LAMBDA o :
                                \/ Contains(ToLower(o.Text), ToLower(vreq.searchFilter))
                                \/ Contains(ToLower(o.Value), ToLower(vreq.searchFilter)))

\* C22: the dispatched list was empty, the current value stood for several
\* options, and the search filter kept one of them whose text differs from
\* the filter in letter case only.
C22_Witness ==
    /\ vpc = "done"
    /\ ~IsQueryVariable(variable) /\ staticBranch(variable).items = <<>>
    /\ Len(CurrentValueOptions(variable)) = 2
    /\ vreq.searchFilter = <<"A">>
    /\ vret.options.items = << [Text |-> <<"a">>, Value |-> <<"a">>] >>

(***************************************************************************)
(* Claims about one pass of interpolateVariables                           *)
(***************************************************************************)
\* The variables of m whose placeholder, braced or plain before a word
\* boundary, stands at position i of t.
PlaceholdersAt(t, i, m) ==
    { [name |-> n, len |-> Len(n) + 3] :
        n \in {k \in DOMAIN m : /\ m[k].t # "nil"
                                /\ HasPrefixAt(t, i, <<"$", "{">> \o k \o <<"}">>)} }
    \cup
    { [name |-> n, len |-> Len(n) + 1] :
        n \in {k \in DOMAIN m : /\ m[k].t # "nil"
                                /\ HasPrefixAt(t, i, <<"$">> \o k)
                                /\ WordBoundary(t, i + Len(k))} }

\* All variables of m substituted at once in one scan of t: at each place the
\* longest placeholder that stands there is replaced by its variable's value
\* string, and the scan goes on behind the placeholder.
RECURSIVE SimultaneousFrom(_, _, _, _)
SimultaneousFrom(t, i, m, strs) ==
    IF i > Len(t) THEN <<>>
    ELSE LET at == PlaceholdersAt(t, i, m)
         IN IF at = {} THEN <<t[i]>> \o SimultaneousFrom(t, i + 1, m, strs)
            ELSE LET p == CHOOSE q \in at : \A o \in at : o.len <= q.len
                 IN strs[p.name] \o SimultaneousFrom(t, i + p.len, m, strs)

\* C23: the output of interpolateVariables is the simultaneous substitution of
\* all variables on the input text, whatever the order in which the map's
\* variables are visited: substituted text is not scanned again.
C23_SinglePassSubstitution ==
    phase = "out" =>
        \A order \in Orders(variables) :
            interpolateVariables(text, variables, order) =
                SimultaneousFrom(text, 1, variables, valueStrs)

(***************************************************************************)
(* Claims about the documents the builder reads                            *)
(***************************************************************************)
\* The request r carries a value for the variable a, its document was copied
\* and interpolated, and its queries were handed to QueryData.
SentInterpolated(r) ==
    /\ pc[r] \in {"done", "ErrQueryData", "panic"}
    /\ ~unsupported
    /\ hasVariables(req[r])
    /\ HasNonNull(req[r].variables.m, NameA)

\* C24: every query object handed to QueryData carries the interpolated text:
\* its expr is the expr of the same query of the stored document with the
\* placeholders of the request's variable replaced by the variable's value,
\* for the nested payloads of a schema-v2 element as for v1 targets.
C24_ExtractedQueriesCarryInterpolatedText ==
    \A r \in Reqs :
        SentInterpolated(r) =>
            \A i \in 1..Len(sent[r]) :
                LET stored == QueryAt(original, metricReq[r].Queries[i])
                IN Has(stored, "expr") =>
                      sent[r][i].expr =
                          SubstFrom(stored.expr, 1, NameA, req[r].variables.m[NameA].v)

\* The places of the panels of a v1 list, at every depth: a place is the
\* sequence of indexes that leads to the panel.
RECURSIVE PlacesIn(_)
PlacesIn(panels) ==
    UNION { {<<i>>} \cup {<<i>> \o at : at \in PlacesIn(MustArray(panels[i], "panels"))} :
              i \in 1..Len(panels) }

\* A row panel marked collapsed.
RowIsCollapsed(panel) ==
    /\ Has(panel, "type") /\ panel.type = <<"row">>
    /\ Has(panel, "collapsed") /\ panel.collapsed

\* The panel at the place is reached through collapsed rows only.
InsideCollapsedRows(panels, at) ==
    \A n \in 1..(Len(at) - 1) : RowIsCollapsed(PanelAt(panels, SubSeq(at, 1, n)))

\* C25: the keys of the v1 panel map are the ids of the panels that are no
\* collapsed rows and lie, at any depth, inside collapsed rows only; each key
\* holds queries of its own panel's targets; the id of a collapsed row is no
\* key, and a panel inside a row that is not collapsed is not visited.
C25_CollapsedRowsAreWalkedNotKeyed ==
    \A r \in Reqs :
        (pc[r] \in AfterBuild \cup {"ErrPanelNotFound"}
         /\ Has(metricReq[r].input, "panels")) =>
            LET panels == metricReq[r].input.panels
                map == groupQueriesByPanelId(metricReq[r].input).result
                keyed == {at \in PlacesIn(panels) :
                             /\ ~RowIsCollapsed(PanelAt(panels, at))
                             /\ InsideCollapsedRows(panels, at)}
            IN /\ DOMAIN map = {PanelAt(panels, at).id : at \in keyed}
               /\ \A at \in keyed :
                     LET queries == map[PanelAt(panels, at).id]
                     IN \A j \in 1..Len(queries) :
                           /\ queries[j].panel = at
                           /\ queries[j].target \in
                                 1..Len(MustArray(PanelAt(panels, at), "targets"))
               /\ \A at \in PlacesIn(panels) :
                     RowIsCollapsed(PanelAt(panels, at)) =>
                        PanelAt(panels, at).id \notin DOMAIN map

\* C25: the panel map of a document with rows in rows was extracted; the panel
\* two collapsed rows deep is a key with a query, the open row is a key
\* without queries, and the panel inside the open row is no key.
C25_Witness ==
    \E r \in Reqs :
        /\ pc[r] = "built"
        /\ Has(metricReq[r].input, "panels")
        /\ LET map == groupQueriesByPanelId(metricReq[r].input).result
           IN /\ DOMAIN map = {3, 8}
              /\ Len(map[3]) > 0 /\ map[3][1].panel = <<1, 1, 1>>
              /\ map[8] = <<>>

(***************************************************************************)
(* Claims about the time window of nested panels and the timezone          *)
(***************************************************************************)
\* C26: when the builder resolves the requested panel id and the caller's
\* range is not used, the resolved from is the timeFrom the panel declares,
\* if that is non-empty, also for a panel inside a collapsed row.
C26_PanelTimeFromSupersedesAtAnyDepth ==
    phase = "time-out" =>
        LET range == timeIn.reqDTO.timeRange
            override == /\ timeIn.timeSelectionEnabled
                        /\ range.from # <<>> /\ range.to # <<>>
        IN (~override /\ timeIn.panelID \in DOMAIN ExtractedPanels(timeIn.d)) =>
              \E timeFrom \in DeclaredTimeFrom(timeIn.d, timeIn.panelID) :
                  timeFrom # <<>> => timeOut.from = timeFrom

\* The names that parse to a zone other than by being blank.
ValidZoneNames == { <<"UTC">>, <<"Europe/Helsinki">> }

\* C27: the resolved timezone is the request's when time selection is enabled
\* and the request's timezone is non-empty and valid, and otherwise the
\* document's, or UTC when that is blank or invalid; it is the same whatever
\* from and to the request carries.
C27_TimezoneResolution ==
    phase = "time-out" =>
        LET asked == timeIn.reqDTO.timeRange.timezone
            configured == DocumentTime(timeIn.d).timezone
        IN /\ timeOut.timezone =
                 IF timeIn.timeSelectionEnabled /\ asked \in ValidZoneNames
                 THEN asked
                 ELSE IF configured \in ValidZoneNames THEN configured
                 ELSE <<"UTC">>
           /\ \A range \in TimeRanges :
                 range.timezone = asked =>
                    \A window \in resolveTimeWindow(
                                      [timeIn EXCEPT !.reqDTO.timeRange = range]) :
                        window.timezone = timeOut.timezone

\* C27: time selection is enabled and the request carries a valid timezone
\* other than the document's but no from, so that its range is not used: the
\* window has the document's from and the request's timezone.
C27_Witness ==
    /\ phase = "time-out"
    /\ timeIn.timeSelectionEnabled
    /\ timeIn.reqDTO.timeRange =
          [from |-> <<>>, to |-> <<"now">>, timezone |-> <<"UTC">>]
    /\ DocumentTime(timeIn.d).timezone = <<"Europe/Helsinki">>
    /\ timeOut.timezone = <<"UTC">>
    /\ timeOut.from = Now6h

(***************************************************************************)
(* Claims about the calls of the query-execution collaborator              *)
(***************************************************************************)
\* Ends of a panel query before the call of QueryData: a failed lookup or
\* validation, or no query to execute.
EndsBeforeQueryData ==
    {"ErrPublicDashboardNotFound", "ErrBadRequest", "ErrPanelNotFound",
     "ErrPanelQueriesNotFound"}

\* Ends of a panel query after the call of QueryData.
EndsAfterQueryData == {"done", "ErrQueryData", "panic"}

\* The variable is a query variable whose datasource names a non-empty uid.
HasDatasourceUid(var) ==
    /\ var.Type = <<"q", "u", "e", "r", "y">>
    /\ var.Datasource.t = "map"
    /\ Has(var.Datasource.m, "uid")
    /\ var.Datasource.m.uid.t = "string"
    /\ var.Datasource.m.uid.v # <<>>

\* C28: an invocation calls QueryData at most once.  A panel query that ended
\* before the call made none, and one that went past it made exactly one, for
\* a non-empty query list; a variable query that ended made exactly one when
\* it found a query variable with a non-empty datasource uid and none
\* otherwise, whether it found a variable of another type or failed to find
\* the dashboard or the variable.
C28_QueryDataCalledAtMostOnce ==
    /\ \A r \in Reqs :
          /\ calls[r] <= 1
          /\ pc[r] \in EndsBeforeQueryData => calls[r] = 0
          /\ pc[r] \in EndsAfterQueryData =>
                calls[r] = 1 /\ Len(metricReq[r].Queries) > 0
    /\ Len(exec) <= 1
    /\ vpc \in {"ErrPublicDashboardNotFound", "ErrVariableNotFound",
                "ErrInternalServerError"} => Len(exec) = 0
    /\ vpc = "done" => Len(exec) = (IF HasDatasourceUid(variable) THEN 1 ELSE 0)

\* C28: a variable query ended for a query variable whose datasource uid is
\* empty, without a call of QueryData.
C28_Witness ==
    /\ vpc = "done"
    /\ variable.Type = <<"q", "u", "e", "r", "y">>
    /\ variable.Datasource.t = "map"
    /\ ~HasDatasourceUid(variable)
    /\ exec = <<>>

(***************************************************************************)
(* Claims about the options extracted from a query result                  *)
(***************************************************************************)
TextColumnNames ==
    { <<"t", "e", "x", "t">>, <<"_", "_", "t", "e", "x", "t">>, <<"n", "a", "m", "e">>,
      <<"l", "a", "b", "e", "l">> }

ValueColumnNames ==
    { <<"v", "a", "l", "u", "e">>, <<"_", "_", "v", "a", "l", "u", "e">>, <<"i", "d">> }

\* The column of the frame whose name, letter case aside, is one of names
\* (the last one when several are), or 0.
ColumnNamed(frame, names) ==
    LET named == {i \in 1..Len(frame.Fields) : ToLower(frame.Fields[i].Name) \in names}
    IN IF named = {} THEN 0 ELSE CHOOSE i \in named : \A j \in named : j <= i

\* A cell as a string: nothing for a null cell.
CellString(cell) ==
    CASE cell.t = "string" -> cell.v
      [] cell.t = "number" -> <<Digits[cell.v + 1]>>
      [] cell.t = "bool" -> IF cell.v THEN <<"true">> ELSE <<"false">>
      [] OTHER -> <<>>

\* The pairs a frame stands for: one for each row, in row order, whose text is
\* not empty.  The text column is the one named so, else the first; the value
\* column the one named so, else the text column.
FramePairs(frame) ==
    IF frame.t = "nil" \/ Len(frame.Fields) = 0 THEN <<>>
    ELSE LET named == ColumnNamed(frame, TextColumnNames)
             texts == frame.Fields[IF named = 0 THEN 1 ELSE named].values
             valued == ColumnNamed(frame, ValueColumnNames)
             values == IF valued = 0 THEN texts ELSE frame.Fields[valued].values
             rows == [i \in 1..Len(texts) |->
                        [Text |-> CellString(texts[i]),
                         Value |-> IF i <= Len(values) THEN CellString(values[i])
                                   ELSE CellString(texts[i])]]
         IN SelectSeq(rows, LAMBDA row : row.Text # <<>>)

\* The pairs of a result, its result sets taken in the given order: those of
\* the frames of every result set that reports no error.
ResultPairs(res, order) ==
    Concat([k \in 1..Len(order) |->
               IF res[order[k]].Error THEN <<>>
               ELSE Concat([i \in 1..Len(res[order[k]].Frames) |->
                               FramePairs(res[order[k]].Frames[i])])])

\* A query variable was resolved from a result of QueryData, with no search
\* filter.
ResolvedFromResult ==
    /\ vpc = "done"
    /\ Len(exec) = 1 /\ exec[1].err = "none"
    /\ vreq.searchFilter = <<>>

OtherTypeResolved ==
    /\ vpc = "done"
    /\ variable.Type \notin { <<"q", "u", "e", "r", "y">>, <<"c", "u", "s", "t", "o", "m">>,
                              <<"c", "o", "n", "s", "t", "a", "n", "t">>,
                              <<"i", "n", "t", "e", "r", "v", "a", "l">> }
    /\ vreq.searchFilter = <<>>

\* C30 as stated: the options of a variable of another type are its
\* predeclared options as they stand: as many, in the same order, each with
\* the text and the value of the predeclared option.
C30_StaticOptionsVerbatim ==
    OtherTypeResolved => vret.options.items = DeclaredOptions(variable)

\* C30, amended: the options of a variable of another type are its
\* predeclared options in normal form, in the same order: an option with
\* neither text nor value is left out, a missing text is the value and a
\* missing value the text.  When none is left the options are those of the
\* current value.
C30_StaticOptionsInNormalForm ==
    OtherTypeResolved =>
        vret.options.items =
            IF NormalOptions(variable) # <<>> THEN NormalOptions(variable)
            ELSE CurrentValueOptions(variable)

\* C30: a variable of another type with four predeclared options, one of
\* them without text and value and one without text, was resolved to three
\* options.
C30_Witness ==
    /\ OtherTypeResolved
    /\ Len(variable.Options) = 4
    /\ vret.options.items = << [Text |-> <<"A">>, Value |-> <<"a">>],
                                [Text |-> <<"b">>, Value |-> <<"b">>],
                                [Text |-> <<"x">>, Value |-> <<"x">>] >>
====
